---- MODULE Spec2Model ----
(***************************************************************************)
(* Pixel Garden: the game-state simulation core (tick, player actions,     *)
(* event table, upgrade catalog) as a state machine.                       *)
(*                                                                         *)
(* The React component keeps the game in one state value (gameState).      *)
(* gameTick and handleAction change it through functional updaters         *)
(* (setGameState(prev => ...)), which always see the latest value.         *)
(* canAffordUpgrade and handleBuyUpgrade are callbacks that close over the *)
(* gameState of the render that created them: `rendered` is that value,    *)
(* and Render is React committing a new render.                            *)
(*                                                                         *)
(* Seed amounts are whole numbers here.  The only fractional quantities of *)
(* the catalog are the effects of seedVault (0.5 per level) and            *)
(* stormSatellite (0.002 per level); getUpgradeEffect returns them in      *)
(* units of 1/effectDen.  The model visits even seedVault levels only, at  *)
(* which every seed amount of the program is a whole number.               *)
(***************************************************************************)
EXTENDS Integers, Sequences, FiniteSets, TLC

\* ------------------------------------------------------------------ bounds
\* Number of handler invocations explored from an initial state.
MaxSteps == 2
\* No purchase is explored from this level on.
MaxLevel == 3

\* --------------------------------------------------------------- constants
INITIAL_PLOT_SIZE == 16
TREE_LIFESPAN_SEEDS == 60
SEASON_DURATION == 300
GOLDEN_TREE_DURATION_MS == 30000
DIAMOND_TREE_DURATION_MS == 60000
BASE_PLANTING_INCREMENT == 5
MIN_PLANTING_INCREMENT == 1
INITIAL_SEEDS == 40
INITIAL_TREE_COST == 10
INITIAL_AUTO_PLANTER_COOLDOWN == 10
INITIAL_AUTO_SHOVEL_COOLDOWN == 8
\* useGameLoop(gameTick, 1000): the tick period in ms.
TICK_MS == 1000

PLANTING_MILESTONES == <<1, 100, 500, 700, 800, 1000, 3000, 4000, 5000, 7000, 10000>>

\* MILESTONE_REWARDS: the gatherBonus amount each key grants (an
\* unlockUpgrade reward changes no state; it is a log line).
MILESTONE_REWARD_KEYS == {130, 500, 720, 850, 1000, 3500}
MilestoneGatherBonus(m) ==
    IF m \in {130, 1000} THEN 1 ELSE 0

Min(a, b) == IF a < b THEN a ELSE b
Max(a, b) == IF a > b THEN a ELSE b

RECURSIVE Pow(_, _)
Pow(b, e) == IF e = 0 THEN 1 ELSE b * Pow(b, e - 1)

\* ------------------------------------------------------------ the catalog
\* costExponent is expNum/expDen in lowest terms; baseEffect is
\* baseEffect/effectDen; requiresMilestone 0 stands for an absent gate.
Def(bc, en, ed, be, eden, rm, pl) ==
    [baseCost |-> bc, expNum |-> en, expDen |-> ed, baseEffect |-> be,
     effectDen |-> eden, requiresMilestone |-> rm,
     perLevelMilestoneProgression |-> pl]

UPGRADES ==
    ("gloves"         :> Def(50,   11, 5,  1,  1, 0, FALSE)) @@
    ("shovel"         :> Def(350,  5,  2,  5,  1, 0, FALSE)) @@
    ("confettiCannon" :> Def(6000, 12, 5,  5,  1, 0, FALSE)) @@
    ("composter"      :> Def(800,  9,  5,  10, 1, 0, FALSE)) @@
    ("betterSoil"     :> Def(500,  8,  5,  1,  1, 0, FALSE)) @@
    ("cleanseSoil"    :> Def(800,  21, 10, 15, 1, 0, FALSE)) @@
    ("fertilizer"     :> Def(2500, 14, 5,  2,  1, 0, FALSE)) @@
    ("sprinklers"     :> Def(1800, 49, 20, 6,  1, 0, FALSE)) @@
    ("sunCore"        :> Def(4200, 13, 5,  1,  1, 500, TRUE)) @@
    ("expandPlot"     :> Def(2000, 5,  2,  2,  1, 0, FALSE)) @@
    ("seedVault"      :> Def(3200, 29, 10, 1,  2, 700, FALSE)) @@
    ("greenhouse"     :> Def(4800, 27, 10, 15, 1, 1000, TRUE)) @@
    ("autoPlanter"    :> Def(3000, 16, 5,  10, 1, 0, FALSE)) @@
    ("autoShovel"     :> Def(1300, 16, 5,  10, 1, 0, FALSE)) @@
    ("weatherStation" :> Def(4200, 67, 20, 30, 1, 0, FALSE)) @@
    ("stormSatellite" :> Def(5200, 16, 5,  2,  1000, 3000, TRUE)) @@
    ("gnomeInterns"   :> Def(5200, 29, 10, 4,  1, 800, FALSE))

UpgradeIds == DOMAIN UPGRADES

\* levelMilestones of the catalog entries (0: no entry for that level).
levelMilestones(id, targetLevel) ==
    IF id = "fertilizer" /\ targetLevel = 7 THEN 700
    ELSE IF id = "sprinklers" /\ targetLevel = 2 THEN 800
    ELSE 0

\* effectFormula of each catalog entry, in units of 1/effectDen.
effectFormula(id, level) ==
    LET base == UPGRADES[id].baseEffect IN
    CASE id \in {"gloves", "betterSoil"} -> 1 + (level * base)
      [] id \in {"shovel", "composter", "cleanseSoil", "sunCore", "greenhouse",
                 "weatherStation", "stormSatellite"} -> level * base
      [] id = "confettiCannon" -> Min(45, level * base)
      [] id = "fertilizer" -> Max(0, (level * base) - 1)
      [] id = "sprinklers" -> Min(60, level * base)
      [] id = "expandPlot" -> base
      [] id = "seedVault" -> Min(4 * UPGRADES[id].effectDen, level * base)
      [] id \in {"autoPlanter", "autoShovel"} -> Max(1, base - level)
      [] id = "gnomeInterns" -> Min(30, level * base)

getUpgradeEffect(id, level) ==
    IF id \notin UpgradeIds THEN 0
    ELSE IF level = 0 /\ id \notin {"gloves", "betterSoil"} THEN 0
    ELSE IF level = 0 THEN 1
    ELSE effectFormula(id, level)

\* baseCost * (expNum/expDen)^level as <<q, r>>, the value being
\* q + r / expDen^level with 0 <= r < expDen^level.
RECURSIVE CostParts(_, _)
CostParts(id, level) ==
    IF level = 0 THEN <<UPGRADES[id].baseCost, 0>>
    ELSE LET p == CostParts(id, level - 1)
             n == UPGRADES[id].expNum
             d == UPGRADES[id].expDen
             D == Pow(d, level - 1)
             a == (p[1] * n) \div d
             c == (p[1] * n) % d
             t == (c * D) + (p[2] * n)
         IN  <<a + (t \div (D * d)), t % (D * d)>>

\* Math.floor(baseCost * Math.pow(costExponent, level)) is evaluated in
\* IEEE-754 doubles: at these levels the exact product is a whole number
\* and the double product falls just below it, so the floor is one less.
DoubleRoundsBelow(id, level) ==
    \/ id = "confettiCannon" /\ level = 3
    \/ id = "fertilizer" /\ level \in {2, 3, 4}

\* Infinity (unknown id) is modelled by Unaffordable.
Unaffordable == 2000000000

\* A variant that charges the base cost at every level.
getUpgradeCostAtBase(id, level) ==
    IF id \notin UpgradeIds THEN Unaffordable
    ELSE UPGRADES[id].baseCost

getUpgradeCost(id, level) ==
    IF id \notin UpgradeIds THEN Unaffordable
    ELSE CostParts(id, level)[1] - (IF DoubleRoundsBelow(id, level) THEN 1 ELSE 0)

IndexOf(seq, x) ==
    IF \E i \in 1..Len(seq) : seq[i] = x
    THEN CHOOSE i \in 1..Len(seq) : seq[i] = x
    ELSE 0

\* A variant that keeps the flat requirement at every target level.
getUpgradeMilestoneRequirementAtEveryLevel(id, targetLevel) ==
    IF targetLevel <= 0 THEN 0
    ELSE IF id \notin UpgradeIds THEN 0
    ELSE IF levelMilestones(id, targetLevel) # 0
         THEN levelMilestones(id, targetLevel)
    ELSE IF UPGRADES[id].perLevelMilestoneProgression
            /\ UPGRADES[id].requiresMilestone # 0
         THEN LET baseIndex == IndexOf(PLANTING_MILESTONES, UPGRADES[id].requiresMilestone)
                  targetIndex == baseIndex + (targetLevel - 1)
              IN  IF baseIndex = 0 THEN UPGRADES[id].requiresMilestone
                  ELSE IF targetIndex <= Len(PLANTING_MILESTONES)
                       THEN PLANTING_MILESTONES[targetIndex]
                       ELSE PLANTING_MILESTONES[Len(PLANTING_MILESTONES)]
    ELSE UPGRADES[id].requiresMilestone

\* 0 stands for undefined (no requirement); the caller tests truthiness.
getUpgradeMilestoneRequirement(id, targetLevel) ==
    IF targetLevel <= 0 THEN 0
    ELSE IF id \notin UpgradeIds THEN 0
    ELSE IF levelMilestones(id, targetLevel) # 0
         THEN levelMilestones(id, targetLevel)
    ELSE IF UPGRADES[id].perLevelMilestoneProgression
            /\ UPGRADES[id].requiresMilestone # 0
         THEN LET baseIndex == IndexOf(PLANTING_MILESTONES, UPGRADES[id].requiresMilestone)
                  targetIndex == baseIndex + (targetLevel - 1)
              IN  IF baseIndex = 0 THEN UPGRADES[id].requiresMilestone
                  ELSE IF targetIndex <= Len(PLANTING_MILESTONES)
                       THEN PLANTING_MILESTONES[targetIndex]
                       ELSE PLANTING_MILESTONES[Len(PLANTING_MILESTONES)]
    ELSE IF targetLevel = 1 THEN UPGRADES[id].requiresMilestone
    ELSE 0

\* baseCost + treeCount * max(MIN, BASE - discountPerTree); the seedVault
\* discount comes in halves, so the increment is computed in halves.  The
\* code does not round: at an odd seedVault level with an odd tree count
\* the cost ends in .5, which the whole-number seeds of this model cannot
\* hold (C19_PlantDebitsCost has the quotient exact wherever a plant runs).
calculatePlantingCost(treeCount, baseCost, seedVaultLevel) ==
    LET den == UPGRADES["seedVault"].effectDen
        discountPerTree == IF seedVaultLevel > 0
                           THEN getUpgradeEffect("seedVault", seedVaultLevel) ELSE 0
        incrementalCost == Max(MIN_PLANTING_INCREMENT * den,
                               (BASE_PLANTING_INCREMENT * den) - discountPerTree)
    IN  baseCost + ((treeCount * incrementalCost) \div den)

\* ------------------------------------------------------------------ state
VARIABLES
    gameState,      \* the React state value (prev of the functional updaters)
    rendered,       \* the gameState the current callbacks closed over
    now,            \* Date.now(), ms
    steps,          \* handler invocations so far
    eventFired,     \* the event roll of some tick has succeeded
    last,           \* the last handler invocation: its inputs, draws and pre-state
    rewardApplied,  \* history: times each MILESTONE_REWARDS key was applied
    heap            \* the objects the state values live in (see Heap)

vars == <<gameState, rendered, now, steps, eventFired, last, rewardApplied, heap>>

\* rareExpiresAt = undefined (JSON drops the key; falsy in the code's conditions).
Undefined == 0

Tile(id, hasTree, isWithered, seedsGenerated, isGolden, isDiamond, rareExpiresAt) ==
    [id |-> id, hasTree |-> hasTree, isWithered |-> isWithered,
     seedsGenerated |-> seedsGenerated, isGolden |-> isGolden,
     isDiamond |-> isDiamond, rareExpiresAt |-> rareExpiresAt]

\* The tile literal of createInitialPlot and of the expandPlot purchase.
EmptyTile(id) == Tile(id, FALSE, FALSE, 0, FALSE, FALSE, Undefined)

createInitialPlot == [i \in 1..INITIAL_PLOT_SIZE |-> EmptyTile(i - 1)]

INITIAL_GAME_STATE ==
    [seeds |-> INITIAL_SEEDS,
     upgrades |-> [id \in UpgradeIds |-> 0],
     plot |-> createInitialPlot,
     treeLifespanSeeds |-> TREE_LIFESPAN_SEEDS,
     costsTree |-> INITIAL_TREE_COST,
     totalTreesPlanted |-> 0,
     loggedMilestones |-> {},
     notifiedAvailable |-> {},
     currentSeason |-> "summer",
     autoPlanterCooldown |-> INITIAL_AUTO_PLANTER_COOLDOWN,
     autoShovelCooldown |-> INITIAL_AUTO_SHOVEL_COOLDOWN,
     seasonDuration |-> 0,
     peakSeeds |-> INITIAL_SEEDS,
     gatherBonus |-> 0]

SEASON_MULTIPLIERS ==
    ("spring" :> 5) @@ ("summer" :> 2) @@ ("autumn" :> 3) @@ ("winter" :> 1)

\* ---------------------------------------------------------------- helpers
Living(t) == t.hasTree /\ ~t.isWithered

\* plot.find(pred): the lowest index whose tile is in S, 0 when none.
FirstIn(S) == IF S = {} THEN 0 ELSE CHOOSE i \in S : \A j \in S : i <= j

EmptyIdx(plot) == {i \in DOMAIN plot : ~plot[i].hasTree}
TreeIdx(plot) == {i \in DOMAIN plot : plot[i].hasTree}
LivingIdx(plot) == {i \in DOMAIN plot : Living(plot[i])}
\* A variant that takes every tile with a tree for a withered one.
WitheredIdxOfAnyTree(plot) == {i \in DOMAIN plot : plot[i].hasTree}
\* plot.find(t => t.isWithered)
WitheredIdx(plot) == {i \in DOMAIN plot : plot[i].isWithered}

\* filter(pred)[k]: the k-th (0-based) index of S in plot order.
Nth(S, k) == CHOOSE i \in S : Cardinality({j \in S : j < i}) = k

scheduleRareExpiry(tile, t) ==
    IF tile.isDiamond THEN [tile EXCEPT !.rareExpiresAt = t + DIAMOND_TREE_DURATION_MS]
    ELSE IF tile.isGolden THEN [tile EXCEPT !.rareExpiresAt = t + GOLDEN_TREE_DURATION_MS]
    ELSE [tile EXCEPT !.rareExpiresAt = Undefined]

ensureRareExpiry(tile, t) ==
    IF (tile.isDiamond \/ tile.isGolden) /\ tile.rareExpiresAt = Undefined
    THEN scheduleRareExpiry(tile, t)
    ELSE tile

\* A variant that leaves the deadline in place.
clearRareExpiryKeepingDeadline(tile) == tile
clearRareExpiry(tile) == [tile EXCEPT !.rareExpiresAt = Undefined]

\* Math.random() * 100 < chance: both outcomes unless the chance excludes one.
Roll(chance) ==
    IF chance <= 0 THEN {FALSE} ELSE IF chance >= 100 THEN {TRUE} ELSE BOOLEAN

\* Math.random() as a percentage, for Math.floor(Math.random() * n).
RandomDraws == {0, 50, 99}
PickOf(n) == {(r * n) \div 100 : r \in RandomDraws}

\* ------------------------------------------------------------ EVENTS
\* A draw of the event phase: the selected event and its Math.random()
\* outcomes (a, b: picks among the living tiles; saved: the blight's
\* sprinkler roll).  "none" is a failed event roll.
Draw(id, a, b, saved) == [id |-> id, a |-> a, b |-> b, saved |-> saved]
NoEvent == Draw("none", 0, 0, FALSE)

SeasonOfEvent ==
    ("changeToSpring" :> "spring") @@ ("changeToSummer" :> "summer") @@
    ("changeToAutumn" :> "autumn") @@ ("changeToWinter" :> "winter")

EventIds ==
    {"bountifulHarvest", "diamondSapling", "goldenSapling", "gentleRain",
     "hummingbirdFestival", "wiltBlight", "wanderingMerchant"}
        \cup DOMAIN SeasonOfEvent

\* A variant in which the harvest needs no living tree.
canTriggerHarvestAnywhere(id, gs) ==
    CASE id \in {"gentleRain", "hummingbirdFestival", "wiltBlight"} ->
            LivingIdx(gs.plot) # {}
      [] id \in {"diamondSapling", "goldenSapling"} ->
            \E i \in DOMAIN gs.plot : ~gs.plot[i].hasTree \/ Living(gs.plot[i])
      [] id \in DOMAIN SeasonOfEvent ->
            gs.currentSeason # SeasonOfEvent[id] /\ gs.seasonDuration <= 0
      [] id \in {"bountifulHarvest", "wanderingMerchant"} -> TRUE

\* event.canTrigger(mutableState); an event without one is always eligible.
canTrigger(id, gs) ==
    CASE id \in {"bountifulHarvest", "gentleRain", "hummingbirdFestival", "wiltBlight"} ->
            LivingIdx(gs.plot) # {}
      [] id \in {"diamondSapling", "goldenSapling"} ->
            \E i \in DOMAIN gs.plot : ~gs.plot[i].hasTree \/ Living(gs.plot[i])
      [] id \in DOMAIN SeasonOfEvent ->
            gs.currentSeason # SeasonOfEvent[id] /\ gs.seasonDuration <= 0
      [] id = "wanderingMerchant" -> TRUE

\* The blight's own sprinkler chance (it does not use getUpgradeEffect).
BlightSprinklerChance(gs) ==
    IF gs.upgrades["sprinklers"] > 0 THEN Min(60, gs.upgrades["sprinklers"] * 6) ELSE 0

\* The draws the random source can produce for an eligible event.
DrawsOf(id, gs) ==
    LET n == Cardinality(LivingIdx(gs.plot)) IN
    CASE id = "hummingbirdFestival" ->
            {Draw(id, a, b, FALSE) : a \in PickOf(n), b \in (IF n >= 2 THEN PickOf(n) ELSE {0})}
      [] id = "wiltBlight" ->
            {Draw(id, a, 0, sv) : a \in PickOf(n), sv \in Roll(BlightSprinklerChance(gs))}
      [] OTHER -> {Draw(id, 0, 0, FALSE)}

\* Weighted selection over the eligible events: every weight is positive,
\* so every eligible event has a draw that selects it.
EventDraws(gs) ==
    {NoEvent} \cup UNION {DrawsOf(id, gs) : id \in {e \in EventIds : canTrigger(e, gs)}}

SaplingTile(tile, golden, t) ==
    [tile EXCEPT !.hasTree = TRUE, !.isWithered = FALSE, !.isGolden = golden,
                 !.isDiamond = ~golden, !.seedsGenerated = 0,
                 !.rareExpiresAt = t + (IF golden THEN GOLDEN_TREE_DURATION_MS
                                        ELSE DIAMOND_TREE_DURATION_MS)]

\* A variant that leaves isDiamond as it was.
FestivalTileKeepingDiamond(tile, t) ==
    [tile EXCEPT !.isGolden = TRUE, !.rareExpiresAt = t + GOLDEN_TREE_DURATION_MS]
FestivalTile(tile, t) ==
    [tile EXCEPT !.isGolden = TRUE, !.isDiamond = FALSE,
                 !.rareExpiresAt = t + GOLDEN_TREE_DURATION_MS]

\* A variant that takes the 15 seeds off below zero.
RainCooledBelowZero(seedsGenerated) == seedsGenerated - 15
\* tile.seedsGenerated = Math.max(0, tile.seedsGenerated - 15)
RainCooled(seedsGenerated) == Max(0, seedsGenerated - 15)

\* A variant without the floor.
MerchantTreeCostUnfloored(cost) == cost - 1
\* gs.costs.tree = Math.max(5, gs.costs.tree - 1)
MerchantTreeCost(cost) == Max(5, cost - 1)

\* EVENTS[id].apply
apply(d, gs, t) ==
    LET plot == gs.plot
        living == LivingIdx(plot)
        emptyTile == FirstIn(EmptyIdx(plot))
    IN
    CASE d.id = "bountifulHarvest" ->
            [gs EXCEPT !.seeds = @ + 10 + (Cardinality(living) * 5)]
      [] d.id = "diamondSapling" ->
            IF emptyTile # 0
            THEN [gs EXCEPT !.plot[emptyTile] = SaplingTile(@, FALSE, t)]
            ELSE LET upgradeTile == FirstIn(living) IN
                 IF upgradeTile # 0
                 THEN [gs EXCEPT !.plot[upgradeTile] =
                          [@ EXCEPT !.isDiamond = TRUE, !.isGolden = FALSE,
                                    !.seedsGenerated = 0,
                                    !.rareExpiresAt = t + DIAMOND_TREE_DURATION_MS]]
                 ELSE gs
      [] d.id = "goldenSapling" ->
            IF emptyTile # 0
            THEN [gs EXCEPT !.plot[emptyTile] = SaplingTile(@, TRUE, t)]
            ELSE LET upgradeTile == FirstIn({i \in living : ~plot[i].isDiamond}) IN
                 IF upgradeTile # 0
                 THEN [gs EXCEPT !.plot[upgradeTile] =
                          [@ EXCEPT !.isGolden = TRUE, !.isDiamond = FALSE,
                                    !.rareExpiresAt = t + GOLDEN_TREE_DURATION_MS]]
                 ELSE gs
      [] d.id \in DOMAIN SeasonOfEvent ->
            [gs EXCEPT !.currentSeason = SeasonOfEvent[d.id],
                       !.seasonDuration = SEASON_DURATION]
      [] d.id = "gentleRain" ->
            [gs EXCEPT !.plot = [i \in DOMAIN plot |->
                IF Living(plot[i])
                THEN [plot[i] EXCEPT !.seedsGenerated = RainCooled(@)]
                ELSE plot[i]]]
      [] d.id = "hummingbirdFestival" ->
            IF living = {} THEN gs
            ELSE LET upgradesCount == Min(2, Cardinality(living))
                     targets == {Nth(living, d.a)} \cup
                                (IF upgradesCount >= 2 THEN {Nth(living, d.b)} ELSE {})
                 IN  [gs EXCEPT !.plot = [i \in DOMAIN plot |->
                        IF i \in targets THEN FestivalTile(plot[i], t) ELSE plot[i]]]
      [] d.id = "wiltBlight" ->
            IF living = {} THEN gs
            ELSE LET unlucky == Nth(living, d.a) IN
                 IF ~d.saved
                 THEN [gs EXCEPT !.plot[unlucky] =
                          [@ EXCEPT !.isWithered = TRUE, !.rareExpiresAt = Undefined]]
                 ELSE gs
      [] d.id = "wanderingMerchant" ->
            [gs EXCEPT !.seeds = @ + 150 + ((gs.totalTreesPlanted * 3) \div 2),
                       !.costsTree = MerchantTreeCost(@)]
      [] OTHER -> gs

\* ------------------------------------------------------------ gameTick
\* A variant that reverts to summer in the tick that takes the duration
\* to zero.
SeasonHandlingRevertingAtZero(gs) ==
    IF gs.seasonDuration > 1 THEN [gs EXCEPT !.seasonDuration = @ - 1]
    ELSE IF gs.currentSeason # "summer"
         THEN [gs EXCEPT !.seasonDuration = 0, !.currentSeason = "summer"]
    ELSE [gs EXCEPT !.seasonDuration = 0]

\* --- Season Handling ---: the duration counts down; a tick that finds it
\* at zero reverts the season to summer.
SeasonHandling(gs) ==
    IF gs.seasonDuration > 0 THEN [gs EXCEPT !.seasonDuration = @ - 1]
    ELSE IF gs.currentSeason # "summer" THEN [gs EXCEPT !.currentSeason = "summer"]
    ELSE gs

\* A variant that leaves the weather station out of the new duration.
EventHandlingWithoutExtraDuration(gs, d, t) ==
    IF d.id = "none" THEN gs ELSE apply(d, gs, t)

\* --- Event Handling --- (d: the event roll and selection of this tick)
EventHandling(gs, d, t) ==
    IF d.id = "none" THEN gs
    ELSE LET weatherStationLevel == gs.upgrades["weatherStation"]
             applied == apply(d, gs, t)
             extraDuration == IF weatherStationLevel > 0
                              THEN getUpgradeEffect("weatherStation", weatherStationLevel)
                              ELSE 0
         IN  IF d.id \in DOMAIN SeasonOfEvent
             THEN [applied EXCEPT !.seasonDuration = @ + extraDuration]
             ELSE applied

\* The tile a manual or automatic plant produces; fert: the fertilizer roll.
PlantedTile(tile, fert, t) ==
    LET fresh == clearRareExpiry([tile EXCEPT !.hasTree = TRUE, !.isWithered = FALSE,
                                              !.seedsGenerated = 0, !.isGolden = FALSE,
                                              !.isDiamond = FALSE])
    IN  IF fert
        THEN scheduleRareExpiry([fresh EXCEPT !.isGolden = TRUE, !.isDiamond = FALSE], t)
        ELSE fresh

\* A variant that leaves the withered trees out of the tree count.
PlantingCostOfLiving(gs) ==
    calculatePlantingCost(Cardinality(LivingIdx(gs.plot)), gs.costsTree,
                          gs.upgrades["seedVault"])

\* calculatePlantingCost on treeCount = plot.filter(t => t.hasTree).length
PlantingCostIn(gs) ==
    calculatePlantingCost(Cardinality(TreeIdx(gs.plot)), gs.costsTree,
                          gs.upgrades["seedVault"])

\* The auto-planter's cooldown expires in this tick and its plant goes through.
AutoPlanterPlants(gs) ==
    /\ gs.upgrades["autoPlanter"] > 0
    /\ EmptyIdx(gs.plot) # {}
    /\ gs.autoPlanterCooldown - 1 <= 0
    /\ Cardinality(TreeIdx(gs.plot)) < Len(gs.plot)
    /\ gs.seeds >= PlantingCostIn(gs)

\* A variant that keeps counting down while the plot is full.
AutoPlanterCountingDownWhenFull(gs, fert, t) ==
    LET autoPlanterLevel == gs.upgrades["autoPlanter"]
        interval == getUpgradeEffect("autoPlanter", autoPlanterLevel)
        emptyTile == FirstIn(EmptyIdx(gs.plot))
    IN  IF autoPlanterLevel <= 0 THEN gs
        ELSE IF gs.autoPlanterCooldown - 1 > 0
             THEN [gs EXCEPT !.autoPlanterCooldown = @ - 1]
        ELSE IF AutoPlanterPlants(gs)
             THEN [gs EXCEPT !.seeds = @ - PlantingCostIn(gs),
                             !.plot[emptyTile] = PlantedTile(@, fert, t),
                             !.autoPlanterCooldown = interval]
        ELSE [gs EXCEPT !.autoPlanterCooldown = interval]

\* --- Automation ---: the auto-planter.

AutoPlanter(gs, fert, t) ==
    LET autoPlanterLevel == gs.upgrades["autoPlanter"]
        interval == getUpgradeEffect("autoPlanter", autoPlanterLevel)
        emptyTile == FirstIn(EmptyIdx(gs.plot))
    IN  IF autoPlanterLevel <= 0 THEN gs
        ELSE IF EmptyIdx(gs.plot) = {} THEN [gs EXCEPT !.autoPlanterCooldown = interval]
        ELSE IF gs.autoPlanterCooldown - 1 > 0
             THEN [gs EXCEPT !.autoPlanterCooldown = @ - 1]
        ELSE IF AutoPlanterPlants(gs)
             THEN [gs EXCEPT !.seeds = @ - PlantingCostIn(gs),
                             !.plot[emptyTile] = PlantedTile(@, fert, t),
                             !.autoPlanterCooldown = interval]
        ELSE [gs EXCEPT !.autoPlanterCooldown = interval]

\* A variant that leaves the rarity flags of the cleared tile.
ClearedTileKeepingRarity(tile) ==
    clearRareExpiry([tile EXCEPT !.hasTree = FALSE, !.isWithered = FALSE,
                                 !.seedsGenerated = 0])
\* Clearing a withered tile: the tile it leaves and the compost of the
\* tile's rarity before the clear.
ClearedTile(tile) ==
    clearRareExpiry([tile EXCEPT !.hasTree = FALSE, !.isWithered = FALSE,
                                 !.seedsGenerated = 0, !.isGolden = FALSE,
                                 !.isDiamond = FALSE])

\* A variant that pays the plain bonus whatever the tile's rarity.
CompostBonusIgnoringRarity(gs, tile) ==
    getUpgradeEffect("shovel", gs.upgrades["shovel"])
    + getUpgradeEffect("composter", gs.upgrades["composter"])

\* currentCompostBonus, from wasGolden / wasDiamond of the tile before the clear.
CompostBonus(gs, tile) ==
    LET currentCompostBonus == getUpgradeEffect("shovel", gs.upgrades["shovel"])
                               + getUpgradeEffect("composter", gs.upgrades["composter"])
    IN  IF tile.isDiamond THEN currentCompostBonus * 10
        ELSE IF tile.isGolden THEN currentCompostBonus * 5
        ELSE currentCompostBonus

AutoShovel(gs) ==
    LET autoShovelLevel == gs.upgrades["autoShovel"]
        witheredTile == FirstIn(WitheredIdx(gs.plot))
    IN  IF autoShovelLevel <= 0 THEN gs
        ELSE IF gs.autoShovelCooldown - 1 > 0
             THEN [gs EXCEPT !.autoShovelCooldown = @ - 1]
        ELSE IF witheredTile # 0
             THEN [gs EXCEPT !.plot[witheredTile] = ClearedTile(@),
                             !.seeds = @ + CompostBonus(gs, gs.plot[witheredTile]),
                             !.autoShovelCooldown =
                                 getUpgradeEffect("autoShovel", autoShovelLevel)]
        ELSE [gs EXCEPT !.autoShovelCooldown =
                            getUpgradeEffect("autoShovel", autoShovelLevel)]

GnomeChance(gs) ==
    IF gs.upgrades["gnomeInterns"] > 0
    THEN getUpgradeEffect("gnomeInterns", gs.upgrades["gnomeInterns"]) ELSE 0

\* A variant whose planted tree is not counted.
GnomeInternsUncounted(gs, hit, lucky, t) ==
    LET gnomeLevel == gs.upgrades["gnomeInterns"]
        emptyTile == FirstIn(EmptyIdx(gs.plot))
    IN  IF gnomeLevel <= 0 \/ ~hit THEN gs
        ELSE IF emptyTile # 0
             THEN LET planted == [gs.plot[emptyTile] EXCEPT
                                     !.hasTree = TRUE, !.isWithered = FALSE,
                                     !.seedsGenerated = 0, !.isGolden = lucky,
                                     !.isDiamond = FALSE]
                  IN  [gs EXCEPT !.plot[emptyTile] =
                                     IF lucky THEN scheduleRareExpiry(planted, t)
                                     ELSE clearRareExpiry(planted)]
        ELSE [gs EXCEPT !.seeds = @ + 10 + (gnomeLevel * 5)]

\* hit: the gnome roll; lucky: Math.random() < 0.18.
GnomeInterns(gs, hit, lucky, t) ==
    LET gnomeLevel == gs.upgrades["gnomeInterns"]
        emptyTile == FirstIn(EmptyIdx(gs.plot))
    IN  IF gnomeLevel <= 0 \/ ~hit THEN gs
        ELSE IF emptyTile # 0
             THEN LET planted == [gs.plot[emptyTile] EXCEPT
                                     !.hasTree = TRUE, !.isWithered = FALSE,
                                     !.seedsGenerated = 0, !.isGolden = lucky,
                                     !.isDiamond = FALSE]
                  IN  [gs EXCEPT !.plot[emptyTile] =
                                     IF lucky THEN scheduleRareExpiry(planted, t)
                                     ELSE clearRareExpiry(planted),
                                 !.totalTreesPlanted = @ + 1]
        ELSE [gs EXCEPT !.seeds = @ + 10 + (gnomeLevel * 5)]

SprinklerChance(gs) ==
    IF gs.upgrades["sprinklers"] > 0
    THEN getUpgradeEffect("sprinklers", gs.upgrades["sprinklers"]) ELSE 0

\* A variant that lets a rare tree live through the tick at its deadline.
RareExpiredAfterDeadline(tile, t) ==
    (tile.isGolden \/ tile.isDiamond) /\ tile.rareExpiresAt # Undefined
        /\ t > tile.rareExpiresAt

\* --- Regular Tick Logic ---: one tile of the growth pass.
RareExpired(tile, t) ==
    (tile.isGolden \/ tile.isDiamond) /\ tile.rareExpiresAt # Undefined
        /\ t >= tile.rareExpiresAt

InRareWindow(tile, t) ==
    (tile.isGolden \/ tile.isDiamond) /\ tile.rareExpiresAt # Undefined
        /\ t < tile.rareExpiresAt

generationMultiplier(tile) ==
    IF tile.isDiamond THEN 5 ELSE IF tile.isGolden THEN 2 ELSE 1

\* A variant that scales a tile's own growth by the season.
SeedsThisTickInSeason(gs, tile, t) ==
    IF ~Living(tile) \/ RareExpired(ensureRareExpiry(tile, t), t) THEN 0
    ELSE getUpgradeEffect("betterSoil", gs.upgrades["betterSoil"])
             * generationMultiplier(tile) * SEASON_MULTIPLIERS[gs.currentSeason]

\* seedsThisTick of a tile as the growth pass meets it (0 when it is skipped).
SeedsThisTick(gs, tile, t) ==
    IF ~Living(tile) \/ RareExpired(ensureRareExpiry(tile, t), t) THEN 0
    ELSE getUpgradeEffect("betterSoil", gs.upgrades["betterSoil"])
             * generationMultiplier(tile)

\* A variant that lets a tree stand until twice its lifespan.
ReachedTwiceLifespan(gs, tile) == tile.seedsGenerated >= 2 * gs.treeLifespanSeeds

\* A variant that spares a tile standing exactly at its lifespan.
ReachedLifespanStrictly(gs, tile) == tile.seedsGenerated > gs.treeLifespanSeeds
\* tile.seedsGenerated >= mutableState.treeLifespanSeeds
ReachedLifespan(gs, tile) == tile.seedsGenerated >= gs.treeLifespanSeeds

\* A variant in which only the sprinklers save a rare tree at its lifespan.
GrowTileSavedBySprinklersOnly(gs, tile, savedBySprinklers, t) ==
    IF ~Living(tile) THEN tile
    ELSE LET ensured == ensureRareExpiry(tile, t)
             grown == [ensured EXCEPT !.seedsGenerated = @ + SeedsThisTick(gs, tile, t)]
         IN  IF RareExpired(ensured, t)
             THEN clearRareExpiry([ensured EXCEPT !.isWithered = TRUE])
             ELSE IF ReachedLifespan(gs, grown)
                  THEN IF savedBySprinklers
                       THEN [grown EXCEPT !.seedsGenerated = gs.treeLifespanSeeds \div 2]
                       ELSE clearRareExpiry([grown EXCEPT !.isWithered = TRUE])
                  ELSE grown

\* savedBySprinklers: this tile's sprinkler roll.
GrowTile(gs, tile, savedBySprinklers, t) ==
    IF ~Living(tile) THEN tile
    ELSE LET ensured == ensureRareExpiry(tile, t)
             grown == [ensured EXCEPT !.seedsGenerated = @ + SeedsThisTick(gs, tile, t)]
         IN  IF RareExpired(ensured, t)
             THEN clearRareExpiry([ensured EXCEPT !.isWithered = TRUE])
             ELSE IF ReachedLifespan(gs, grown)
                  THEN IF InRareWindow(ensured, t)
                       THEN [grown EXCEPT !.seedsGenerated = gs.treeLifespanSeeds \div 2]
                       ELSE IF savedBySprinklers
                       THEN [grown EXCEPT !.seedsGenerated = gs.treeLifespanSeeds \div 2]
                       ELSE clearRareExpiry([grown EXCEPT !.isWithered = TRUE])
                  ELSE grown

RECURSIVE SeedsGained(_, _, _)
SeedsGained(gs, n, t) ==
    IF n = 0 THEN 0 ELSE SeedsGained(gs, n - 1, t) + SeedsThisTick(gs, gs.plot[n], t)

\* The tiles whose sprinkler roll decides their fate in this tick.
AtThreshold(gs, t) ==
    {i \in LivingIdx(gs.plot) :
        LET ensured == ensureRareExpiry(gs.plot[i], t) IN
        /\ ~RareExpired(ensured, t)
        /\ ~InRareWindow(ensured, t)
        /\ gs.plot[i].seedsGenerated + SeedsThisTick(gs, gs.plot[i], t)
               >= gs.treeLifespanSeeds}

\* saved: the tiles whose sprinkler roll succeeded.
GrowthPass(gs, saved, t) ==
    LET plot == [i \in DOMAIN gs.plot |-> GrowTile(gs, gs.plot[i], i \in saved, t)]
        witheredCountThisTick ==
            Cardinality({i \in DOMAIN plot : plot[i].isWithered /\ ~gs.plot[i].isWithered})
        seeds == gs.seeds + (SeedsGained(gs, Len(gs.plot), t)
                                 * SEASON_MULTIPLIERS[gs.currentSeason])
    IN  [gs EXCEPT !.plot = plot,
                   !.loggedMilestones =
                       IF witheredCountThisTick > 0
                       THEN @ \cup {<<"firstWither", 0>>} ELSE @,
                   !.seeds = seeds,
                   !.peakSeeds = Max(@, seeds)]

\* Check for newly available upgrades
NotifyLevelCap(id) == id \in {"autoPlanter", "autoShovel"}

NewlyAvailable(gs) ==
    {<<id, gs.upgrades[id]>> : id \in {u \in UpgradeIds :
        /\ ~(NotifyLevelCap(u) /\ gs.upgrades[u] >= 9)
        /\ <<u, gs.upgrades[u]>> \notin gs.notifiedAvailable
        /\ gs.seeds >= getUpgradeCost(u, gs.upgrades[u])}}

\* A variant that logs the availability without recording it.
NotificationPassForgetting(gs) == gs

NotificationPass(gs) ==
    [gs EXCEPT !.notifiedAvailable = @ \cup NewlyAvailable(gs)]

\* "A tree has withered.": the key whose message the growth pass emits.
FirstWitherLog(gs, saved, t) ==
    LET plot == [i \in DOMAIN gs.plot |-> GrowTile(gs, gs.plot[i], i \in saved, t)]
        witheredCountThisTick ==
            Cardinality({i \in DOMAIN plot : plot[i].isWithered /\ ~gs.plot[i].isWithered})
    IN  IF witheredCountThisTick > 0 /\ <<"firstWither", 0>> \notin gs.loggedMilestones
        THEN {<<"firstWither", 0>>} ELSE {}

\* The random draws of one tick.
TickDraw(event, fert, hit, lucky, saved) ==
    [event |-> event, fert |-> fert, hit |-> hit, lucky |-> lucky, saved |-> saved]

BeforeGrowth(gs, dr, t) ==
    GnomeInterns(AutoShovel(AutoPlanter(EventHandling(SeasonHandling(gs), dr.event, t),
                                        dr.fert, t)),
                 dr.hit, dr.lucky, t)

\* A variant that runs the notification pass before the growth pass.
gameTickNotifyingBeforeGain(gs, dr, t) ==
    GrowthPass(NotificationPass(BeforeGrowth(gs, dr, t)), dr.saved, t)

\* The phases of one tick, in the order of the updater.
gameTick(gs, dr, t) ==
    NotificationPass(GrowthPass(BeforeGrowth(gs, dr, t), dr.saved, t))

\* ---------------------------------------------------------- handleAction
\* A variant that overwrites the peak with the current seeds.
UpdatePeakToSeeds(gs) == [gs EXCEPT !.peakSeeds = gs.seeds]

\* Update peak seeds after actions
UpdatePeak(gs) == [gs EXCEPT !.peakSeeds = Max(@, gs.seeds)]

\* case 'gatherSeeds' (pop: the confetti roll)
ConfettiChance(gs) ==
    IF gs.upgrades["confettiCannon"] > 0
    THEN getUpgradeEffect("confettiCannon", gs.upgrades["confettiCannon"]) ELSE 0

\* A variant that leaves the milestone bonus out of the gain.
gatherSeedsWithoutBonus(gs, pop) ==
    LET glovesGain == getUpgradeEffect("gloves", gs.upgrades["gloves"])
        sunCoreGain == getUpgradeEffect("sunCore", gs.upgrades["sunCore"])
        confettiLevel == gs.upgrades["confettiCannon"]
        confettiBonus == IF confettiLevel > 0 /\ pop THEN 5 + (confettiLevel * 3) ELSE 0
    IN  UpdatePeak([gs EXCEPT !.seeds = @ + glovesGain + sunCoreGain + confettiBonus])

gatherSeeds(gs, pop) ==
    LET glovesGain == getUpgradeEffect("gloves", gs.upgrades["gloves"])
        sunCoreGain == getUpgradeEffect("sunCore", gs.upgrades["sunCore"])
        confettiLevel == gs.upgrades["confettiCannon"]
        confettiBonus == IF confettiLevel > 0 /\ pop THEN 5 + (confettiLevel * 3) ELSE 0
    IN  UpdatePeak([gs EXCEPT !.seeds = @ + glovesGain + sunCoreGain + gs.gatherBonus
                                          + confettiBonus])

\* case 'plantTree': the guard of the plant.
CanPlant(gs) ==
    /\ EmptyIdx(gs.plot) # {}
    /\ Cardinality(TreeIdx(gs.plot)) < Len(gs.plot)
    /\ gs.seeds >= PlantingCostIn(gs)

\* PLANTING_MILESTONES.find(m => m === total), when not logged yet (0: none).
MilestoneCrossed(logged, total) ==
    IF IndexOf(PLANTING_MILESTONES, total) # 0 /\ <<"planted", total>> \notin logged
    THEN total ELSE 0

\* The rewards of MILESTONE_REWARDS[milestone] are applied: the milestone
\* is crossed and the table has an entry under that key.
RewardsApplied(logged, total) ==
    IF MilestoneCrossed(logged, total) \in MILESTONE_REWARD_KEYS
    THEN MilestoneCrossed(logged, total) ELSE 0

\* "Planted <m> trees.": the key whose message a plant emits.
PlantMilestoneLog(gs) ==
    IF CanPlant(gs) /\ MilestoneCrossed(gs.loggedMilestones, gs.totalTreesPlanted + 1) # 0
    THEN {<<"planted", MilestoneCrossed(gs.loggedMilestones, gs.totalTreesPlanted + 1)>>}
    ELSE {}

plantTree(gs, fert, t) ==
    IF ~CanPlant(gs) THEN UpdatePeak(gs)
    ELSE LET emptyTile == FirstIn(EmptyIdx(gs.plot))
             total == gs.totalTreesPlanted + 1
             milestone == MilestoneCrossed(gs.loggedMilestones, total)
             reward == RewardsApplied(gs.loggedMilestones, total)
         IN  UpdatePeak(
               [gs EXCEPT !.seeds = @ - PlantingCostIn(gs),
                          !.plot[emptyTile] = PlantedTile(@, fert, t),
                          !.totalTreesPlanted = total,
                          !.gatherBonus = IF reward # 0
                                          THEN @ + MilestoneGatherBonus(reward) ELSE @,
                          !.loggedMilestones = IF milestone # 0
                                               THEN @ \cup {<<"planted", milestone>>}
                                               ELSE @])

\* case 'clearWithered'
clearWithered(gs) ==
    LET witheredTile == FirstIn(WitheredIdx(gs.plot)) IN
    IF witheredTile = 0 THEN UpdatePeak(gs)
    ELSE UpdatePeak(
           [gs EXCEPT !.plot[witheredTile] = ClearedTile(@),
                      !.seeds = IF gs.upgrades["shovel"] > 0
                                THEN @ + CompostBonus(gs, gs.plot[witheredTile])
                                ELSE @])

\* ------------------------------------------------------ handleBuyUpgrade
\* gameState.upgrades[upgradeId].level on an id the state has no entry
\* for: a TypeError (reading a property of undefined).
canAffordThrows(gs, upgradeId) == upgradeId \notin DOMAIN gs.upgrades

canAffordUpgrade(gs, upgradeId) ==
    LET currentLevel == gs.upgrades[upgradeId]
        targetLevel == currentLevel + 1
        cost == getUpgradeCost(upgradeId, currentLevel)
        requiredMilestone == getUpgradeMilestoneRequirement(upgradeId, targetLevel)
    IN  IF gs.seeds < cost THEN FALSE
        ELSE IF requiredMilestone # 0 /\ gs.totalTreesPlanted < requiredMilestone
             THEN FALSE
        ELSE TRUE

\* A variant that puts the new tiles in front of the old ones.
ExpandedPlotUnshifted(plot, tilesToUnlock) ==
    [i \in 1..tilesToUnlock |-> EmptyTile(Len(plot) + i - 1)] \o plot
\* A variant that numbers the new tiles one too high.
ExpandedPlotNumberedFromLength(plot, tilesToUnlock) ==
    plot \o [i \in 1..tilesToUnlock |-> EmptyTile(Len(plot) + i)]
\* newState.plot.push(...newTiles): the new tiles take the next ids.
ExpandedPlot(plot, tilesToUnlock) ==
    plot \o [i \in 1..tilesToUnlock |-> EmptyTile(Len(plot) + i - 1)]

\* A variant that recomputes the lifespan from the levels before the
\* purchase.
BuyUpdaterOnOldLevels(prev, upgradeId, cost) ==
    LET levelled == [prev EXCEPT !.seeds = @ - cost, !.upgrades[upgradeId] = @ + 1]
        tilesToUnlock == UPGRADES["expandPlot"].baseEffect
        expanded ==
            IF upgradeId = "expandPlot"
            THEN [levelled EXCEPT !.plot = ExpandedPlot(@, tilesToUnlock)]
            ELSE levelled
    IN  IF upgradeId \in {"cleanseSoil", "greenhouse"}
        THEN [expanded EXCEPT !.treeLifespanSeeds =
                 TREE_LIFESPAN_SEEDS
                   + getUpgradeEffect("cleanseSoil", prev.upgrades["cleanseSoil"])
                   + getUpgradeEffect("greenhouse", prev.upgrades["greenhouse"])]
        ELSE expanded

\* The updater of handleBuyUpgrade: prev is the state it is applied to,
\* cost the value the callback computed from its own gameState.
BuyUpdater(prev, upgradeId, cost) ==
    LET levelled == [prev EXCEPT !.seeds = @ - cost, !.upgrades[upgradeId] = @ + 1]
        tilesToUnlock == UPGRADES["expandPlot"].baseEffect
        expanded ==
            IF upgradeId = "expandPlot"
            THEN [levelled EXCEPT !.plot = ExpandedPlot(@, tilesToUnlock)]
            ELSE levelled
    IN  IF upgradeId \in {"cleanseSoil", "greenhouse"}
        THEN [expanded EXCEPT !.treeLifespanSeeds =
                 TREE_LIFESPAN_SEEDS
                   + getUpgradeEffect("cleanseSoil", expanded.upgrades["cleanseSoil"])
                   + getUpgradeEffect("greenhouse", expanded.upgrades["greenhouse"])]
        ELSE expanded

\* The guard of handleBuyUpgrade passes and its updater runs.
BuyUpdates(seen, upgradeId) ==
    ~canAffordThrows(seen, upgradeId) /\ canAffordUpgrade(seen, upgradeId)

\* handleBuyUpgrade(upgradeId) called by a callback whose gameState is
\* `seen`, the React state being `prev`.
handleBuyUpgrade(seen, prev, upgradeId) ==
    IF canAffordThrows(seen, upgradeId) THEN prev
    ELSE IF ~canAffordUpgrade(seen, upgradeId) THEN prev
    ELSE BuyUpdater(prev, upgradeId, getUpgradeCost(upgradeId, seen.upgrades[upgradeId]))

\* ------------------------------------------------------------ persistence
\* JSON.stringify(gameState): a property whose value is undefined is left
\* out of the text, so a tile without a deadline is written with six keys.
SerializedTile(tile) ==
    IF tile.rareExpiresAt = Undefined
    THEN [id |-> tile.id, hasTree |-> tile.hasTree, isWithered |-> tile.isWithered,
          seedsGenerated |-> tile.seedsGenerated, isGolden |-> tile.isGolden,
          isDiamond |-> tile.isDiamond]
    ELSE tile

serialize(gs) ==
    [gs EXCEPT !.plot = [i \in DOMAIN gs.plot |-> SerializedTile(gs.plot[i])]]

\* A parsed tile as the program reads it: a missing key reads as undefined.
ParsedTile(t) ==
    Tile(t.id, t.hasTree, t.isWithered, t.seedsGenerated, t.isGolden, t.isDiamond,
         IF "rareExpiresAt" \in DOMAIN t THEN t.rareExpiresAt ELSE Undefined)

\* A variant that takes the peak from the current seeds alone.
RederivedPeakFromSeeds(peakSeeds, seeds) == seeds
\* Math.max(mergedState.peakSeeds || 0, mergedState.resources.seeds || 0)
RederivedPeak(peakSeeds, seeds) == Max(peakSeeds, seeds)

\* The useState initializer on a saved game: top-level keys of the save
\* replace those of INITIAL_GAME_STATE, the nested maps are merged key by
\* key, and peakSeeds is derived again.
deserialize(doc) ==
    LET mergedState ==
            [seeds |-> doc.seeds,
             upgrades |-> [id \in DOMAIN INITIAL_GAME_STATE.upgrades \cup DOMAIN doc.upgrades |->
                              IF id \in DOMAIN doc.upgrades THEN doc.upgrades[id]
                              ELSE INITIAL_GAME_STATE.upgrades[id]],
             plot |-> [i \in DOMAIN doc.plot |-> ParsedTile(doc.plot[i])],
             treeLifespanSeeds |-> doc.treeLifespanSeeds,
             costsTree |-> doc.costsTree,
             totalTreesPlanted |-> doc.totalTreesPlanted,
             loggedMilestones |-> INITIAL_GAME_STATE.loggedMilestones \cup doc.loggedMilestones,
             notifiedAvailable |-> INITIAL_GAME_STATE.notifiedAvailable \cup doc.notifiedAvailable,
             currentSeason |-> doc.currentSeason,
             autoPlanterCooldown |-> doc.autoPlanterCooldown,
             autoShovelCooldown |-> doc.autoShovelCooldown,
             seasonDuration |-> doc.seasonDuration,
             peakSeeds |-> doc.peakSeeds,
             gatherBonus |-> doc.gatherBonus]
    IN  [mergedState EXCEPT !.peakSeeds = RederivedPeak(@, mergedState.seeds)]

\* ------------------------------------------------------- initial states
\* The useState initializer returns INITIAL_GAME_STATE or the saved game in
\* localStorage.  The saved games below are states earlier play leaves
\* there; each keeps what play keeps (levels and milestones consistent with
\* totalTreesPlanted, plot length and lifespan consistent with the levels).
StartTime == DIAMOND_TREE_DURATION_MS + GOLDEN_TREE_DURATION_MS

Lifespan(levels) ==
    TREE_LIFESPAN_SEEDS + getUpgradeEffect("cleanseSoil", levels["cleanseSoil"])
                        + getUpgradeEffect("greenhouse", levels["greenhouse"])

SavedTile(id, kind, lifespan) ==
    CASE kind = "young"          -> Tile(id, TRUE, FALSE, 0, FALSE, FALSE, Undefined)
      [] kind = "old"            -> Tile(id, TRUE, FALSE, lifespan - 1, FALSE, FALSE, Undefined)
      [] kind = "withered"       -> Tile(id, TRUE, TRUE, lifespan, FALSE, FALSE, Undefined)
      [] kind = "witheredGolden" -> Tile(id, TRUE, TRUE, 7, TRUE, FALSE, Undefined)
      [] kind = "witheredDiamond" -> Tile(id, TRUE, TRUE, 7, FALSE, TRUE, Undefined)
      [] kind = "golden"         -> Tile(id, TRUE, FALSE, lifespan - 2, TRUE, FALSE,
                                         StartTime + GOLDEN_TREE_DURATION_MS - TICK_MS)
      [] kind = "diamond"        -> Tile(id, TRUE, FALSE, 5, FALSE, TRUE,
                                         StartTime + TICK_MS)
      [] OTHER                   -> EmptyTile(id)

SavedPlot(kinds, fill, levels) ==
    [i \in 1..(INITIAL_PLOT_SIZE + (2 * levels["expandPlot"])) |->
        SavedTile(i - 1, IF i <= Len(kinds) THEN kinds[i] ELSE fill, Lifespan(levels))]

NoLevels == [id \in UpgradeIds |-> 0]
ToolLevels ==
    [NoLevels EXCEPT !["shovel"] = 1, !["composter"] = 1, !["sprinklers"] = 1,
                     !["fertilizer"] = 1, !["autoPlanter"] = 1, !["autoShovel"] = 1,
                     !["confettiCannon"] = 1]
LateLevels ==
    [NoLevels EXCEPT !["gnomeInterns"] = 1, !["seedVault"] = 2, !["expandPlot"] = 1,
                     !["cleanseSoil"] = 1, !["weatherStation"] = 1, !["gloves"] = 2]

PlanterLevels == [NoLevels EXCEPT !["gloves"] = 2, !["autoPlanter"] = 1]

\* Composter and auto-shovel bought before any shovel: no purchase depends
\* on another, and none of the three has a milestone.
ShovellessLevels == [NoLevels EXCEPT !["composter"] = 1, !["autoShovel"] = 1]

\* Before the gnome interns are owned only manual plants raise
\* totalTreesPlanted, one at a time, so every milestone passed is logged.
LoggedFor(total, plot) ==
    {<<"planted", PLANTING_MILESTONES[k]>> :
        k \in {j \in 1..Len(PLANTING_MILESTONES) : PLANTING_MILESTONES[j] <= total}}
    \cup (IF total > INITIAL_PLOT_SIZE \/ WitheredIdx(plot) # {}
          THEN {<<"firstWither", 0>>} ELSE {})

SavedGame(seeds, levels, kinds, fill, total, season, duration) ==
    LET plot == SavedPlot(kinds, fill, levels) IN
    NotificationPass(
      [INITIAL_GAME_STATE EXCEPT
         !.seeds = seeds, !.peakSeeds = Max(seeds, INITIAL_SEEDS),
         !.upgrades = levels, !.plot = plot,
         !.treeLifespanSeeds = Lifespan(levels),
         !.totalTreesPlanted = total,
         !.loggedMilestones = LoggedFor(total, plot),
         !.currentSeason = season, !.seasonDuration = duration,
         !.autoPlanterCooldown = 1, !.autoShovelCooldown = 1,
         !.gatherBonus = IF total >= 1000 THEN 1 ELSE 0])

SavedGames ==
    {SavedGame(s, NoLevels, <<"old", "withered">>, "empty", 2, "summer", 0) :
        s \in {9, 50}}
    \cup {SavedGame(50, ToolLevels, k, "empty", 40, "spring", 1) :
        k \in {<<"witheredGolden", "golden", "old">>, <<"witheredDiamond", "diamond">>}}
    \cup {SavedGame(350, NoLevels, <<>>, "young", 20, "winter", 0)}
    \cup {SavedGame(getUpgradeCost("seedVault", 0) - 1, NoLevels, <<>>, "young", 20,
                    "summer", 0)}
    \cup {[SavedGame(9, NoLevels, <<"diamond">>, "withered", 20, "summer", 0)
              EXCEPT !.costsTree = 5]}
    \cup {SavedGame(9, PlanterLevels, <<"old">>, "young", 40, "summer", 0)}
    \cup {SavedGame(9, ShovellessLevels, <<"witheredGolden", "old">>, "empty", 20,
                    "summer", 0)}
    \cup {SavedGame(getUpgradeCost("gloves", PlanterLevels["gloves"]), PlanterLevels,
                    <<"young">>, "empty", 40, "winter", 5)}
    \cup {SavedGame(6000, NoLevels, <<"empty">>, "young", t, "summer", 0) :
        t \in {99, 129, 499}}
    \cup {SavedGame(6000, LateLevels, k, "young", 999, "autumn", 0) :
        k \in {<<"empty">>, <<"young">>}}

\* The history of a saved game: a reward was applied when its milestone
\* was logged and the table has an entry under that key.
AppliedIn(gs) ==
    [m \in MILESTONE_REWARD_KEYS |->
        IF <<"planted", m>> \in gs.loggedMilestones THEN 1 ELSE 0]

NoTickDraw == TickDraw(NoEvent, FALSE, FALSE, FALSE, {})

\* The objects behind the values: shared is the content of the module-level
\* INITIAL_GAME_STATE object, aliased tells that the React state is that
\* very object, inputAfter is the content of the last updater's argument
\* once the updater has returned.
Heap(shared, aliased, inputAfter) ==
    [shared |-> shared, aliased |-> aliased, inputAfter |-> inputAfter]

\* A variant in which the updater writes to its argument.
MutatedInPlace(prev, newState) == newState
\* const newState = JSON.parse(JSON.stringify(prev)): the updater writes to
\* the copy, and its argument keeps its content.
DeepCopied(prev, newState) == prev

\* A variant in which the updater writes to prev and returns it.
HeapAfterUpdateOfArgument(h, prev, newState) ==
    Heap(IF h.aliased THEN newState ELSE h.shared, h.aliased, newState)
\* An updater has turned prev into newState, a new object.
HeapAfterUpdate(h, prev, newState) ==
    Heap(IF h.aliased THEN DeepCopied(prev, newState) ELSE h.shared,
         FALSE, DeepCopied(prev, newState))

Last(op, id, pre, seen, dr, roll, thrown) ==
    [op |-> op, id |-> id, pre |-> pre, seen |-> seen, dr |-> dr, roll |-> roll,
     thrown |-> thrown]

Init ==
    /\ gameState \in {INITIAL_GAME_STATE} \cup SavedGames
    /\ rendered = gameState
    /\ now = StartTime
    /\ steps = 0
    /\ eventFired = FALSE
    /\ last = Last("init", "", gameState, gameState, NoTickDraw, FALSE, FALSE)
    /\ rewardApplied = AppliedIn(gameState)
    /\ heap = Heap(INITIAL_GAME_STATE, gameState = INITIAL_GAME_STATE, gameState)

\* ---------------------------------------------------------------- actions
\* The ids a caller passes to handleBuyUpgrade: ungated, plot-expanding,
\* lifespan-raising and milestone-gated catalog entries, and an id that is
\* not in the catalog.
BuyIds ==
    {"gloves", "shovel", "expandPlot", "cleanseSoil", "sunCore", "greenhouse",
     "autoPlanter", "unknownUpgrade"}

\* Time between two ticks: the period, or longer when timers are throttled
\* (it matters only while some tile carries a deadline).
TickDelays ==
    {TICK_MS} \cup (IF \E i \in DOMAIN gameState.plot :
                          gameState.plot[i].rareExpiresAt # Undefined
                    THEN {GOLDEN_TREE_DURATION_MS} ELSE {})

\* The interval callback of useGameLoop: setGameState(gameTick).  The
\* update is rendered later (Render); callbacks keep the old gameState
\* until then.  The event roll (0.2 % per tick and up) succeeds in at most
\* one tick of an explored run; the saved games hold what earlier events
\* left behind.
Tick ==
    /\ steps < MaxSteps
    /\ \E delay \in TickDelays :
         LET t == now + delay
             s1 == SeasonHandling(gameState)
         IN  \E d \in (IF eventFired THEN {NoEvent} ELSE EventDraws(s1)) :
               LET s2 == EventHandling(s1, d, t) IN
               \E fert \in (IF AutoPlanterPlants(s2)
                            THEN Roll(getUpgradeEffect("fertilizer", s2.upgrades["fertilizer"]))
                            ELSE {FALSE}) :
                 LET s4 == AutoShovel(AutoPlanter(s2, fert, t)) IN
                 \E hit \in Roll(GnomeChance(s4)) :
                   \E lucky \in (IF hit /\ EmptyIdx(s4.plot) # {} THEN BOOLEAN ELSE {FALSE}) :
                     LET s5 == GnomeInterns(s4, hit, lucky, t) IN
                     \E saved \in (IF SprinklerChance(s5) > 0
                                   THEN SUBSET AtThreshold(s5, t) ELSE {{}}) :
                       LET dr == TickDraw(d, fert, hit, lucky, saved) IN
                       /\ gameState' = gameTick(gameState, dr, t)
                       /\ now' = t
                       /\ eventFired' = (eventFired \/ d.id # "none")
                       /\ last' = Last("tick", "", gameState, rendered, dr, FALSE, FALSE)
    /\ heap' = HeapAfterUpdate(heap, gameState, gameState')
    /\ steps' = steps + 1
    /\ UNCHANGED <<rendered, rewardApplied>>

\* React commits the pending render: the callbacks are re-created over the
\* current state.  A click that arrives after an interval callback and
\* before this render runs the callbacks of the previous render.
Render ==
    /\ rendered # gameState
    /\ rendered' = gameState
    /\ UNCHANGED <<gameState, now, steps, eventFired, last, rewardApplied, heap>>

\* A click on Gather: handleAction('gatherSeeds'); the update of a click
\* is rendered before the next event.
Gather ==
    /\ steps < MaxSteps
    /\ \E pop \in Roll(ConfettiChance(gameState)) :
         /\ gameState' = gatherSeeds(gameState, pop)
         /\ last' = Last("gatherSeeds", "", gameState, rendered, NoTickDraw, pop, FALSE)
    /\ heap' = HeapAfterUpdate(heap, gameState, gameState')
    /\ rendered' = gameState'
    /\ steps' = steps + 1
    /\ UNCHANGED <<now, eventFired, rewardApplied>>

\* A click on Plant: handleAction('plantTree').
Plant ==
    /\ steps < MaxSteps
    /\ \E fert \in (IF CanPlant(gameState)
                    THEN Roll(getUpgradeEffect("fertilizer", gameState.upgrades["fertilizer"]))
                    ELSE {FALSE}) :
         /\ gameState' = plantTree(gameState, fert, now)
         /\ last' = Last("plantTree", "", gameState, rendered, NoTickDraw, fert, FALSE)
    /\ heap' = HeapAfterUpdate(heap, gameState, gameState')
    /\ rewardApplied' =
         LET reward == IF CanPlant(gameState)
                       THEN RewardsApplied(gameState.loggedMilestones,
                                           gameState.totalTreesPlanted + 1)
                       ELSE 0
         IN  IF reward # 0 THEN [rewardApplied EXCEPT ![reward] = @ + 1]
             ELSE rewardApplied
    /\ rendered' = gameState'
    /\ steps' = steps + 1
    /\ UNCHANGED <<now, eventFired>>

\* handleAction('clearWithered'), from a click or from the hold timer.
Clear ==
    /\ steps < MaxSteps
    /\ gameState' = clearWithered(gameState)
    /\ last' = Last("clearWithered", "", gameState, rendered, NoTickDraw, FALSE, FALSE)
    /\ heap' = HeapAfterUpdate(heap, gameState, gameState')
    /\ steps' = steps + 1
    /\ UNCHANGED <<rendered, now, eventFired, rewardApplied>>

\* A click on an upgrade: handleBuyUpgrade(id) of the current callbacks.
Buy ==
    /\ steps < MaxSteps
    /\ \E id \in BuyIds :
         /\ id \in UpgradeIds => gameState.upgrades[id] < MaxLevel
         /\ gameState' = handleBuyUpgrade(rendered, gameState, id)
         /\ last' = Last("buyUpgrade", id, gameState, rendered, NoTickDraw, FALSE,
                         canAffordThrows(rendered, id))
         /\ rendered' = IF gameState' = gameState THEN rendered ELSE gameState'
         /\ heap' = IF BuyUpdates(rendered, id)
                    THEN HeapAfterUpdate(heap, gameState, gameState')
                    ELSE heap
    /\ steps' = steps + 1
    /\ UNCHANGED <<now, eventFired, rewardApplied>>

Next == Tick \/ Render \/ Gather \/ Plant \/ Clear \/ Buy

Spec == Init /\ [][Next]_vars

\* The reset button held for 5 s: localStorage.removeItem(SAVE_KEY) and
\* setGameState(INITIAL_GAME_STATE), the module-level object itself.  The
\* handler reads no state, so `last` keeps the new state as its pre-state;
\* the title screen covers the controls until the reset is rendered.
Reset ==
    /\ steps < MaxSteps
    /\ gameState' = heap.shared
    /\ rendered' = gameState'
    /\ heap' = Heap(heap.shared, TRUE, heap.inputAfter)
    /\ last' = Last("reset", "", gameState', gameState', NoTickDraw, FALSE, FALSE)
    /\ rewardApplied' = AppliedIn(gameState')
    /\ steps' = steps + 1
    /\ UNCHANGED <<now, eventFired>>

NextWithReset == Next \/ Reset

\* Play with full resets.
SpecWithReset == Init /\ [][NextWithReset]_vars

\* --------------------------------------------------------- catalog queries
\* The pure functions of the catalog, applied to arguments drawn from
\* bounded sets: an upgrade id, its current level, the number of trees
\* planted and whether the seeds fall one short of the cost.
\* Highest current level of a milestone query.
MaxQueryLevel == 7
\* Highest current level of a cost query.
MaxCostLevel == 4

QueryTotals ==
    {0} \cup {m - 1 : m \in {700, 800}} \cup {700, 800}

Query(op, id, level, total, short, result) ==
    [op |-> op, id |-> id, level |-> level, total |-> total,
     short |-> short, result |-> result]

\* The state a purchase of id is asked about.
QueriedGame(id, level, total, short) ==
    LET seeds == getUpgradeCost(id, level) - (IF short THEN 1 ELSE 0) IN
    [INITIAL_GAME_STATE EXCEPT
       !.upgrades[id] = level, !.totalTreesPlanted = total,
       !.seeds = seeds, !.peakSeeds = Max(seeds, INITIAL_SEEDS)]

CatalogInit ==
    /\ gameState = INITIAL_GAME_STATE
    /\ rendered = gameState
    /\ now = StartTime
    /\ steps = 0
    /\ eventFired = FALSE
    /\ \E id \in UpgradeIds, level \in 0..MaxQueryLevel,
          total \in QueryTotals, short \in BOOLEAN :
         last = Query("arguments", id, level, total, short, 0)
    /\ rewardApplied = AppliedIn(gameState)
    /\ heap = Heap(INITIAL_GAME_STATE, TRUE, gameState)

\* getUpgradeMilestoneRequirement(id, currentLevel + 1)
AskRequirement ==
    /\ last.op = "arguments"
    /\ last' = [last EXCEPT !.op = "requirement",
                  !.result = getUpgradeMilestoneRequirement(last.id, last.level + 1)]
    /\ UNCHANGED <<gameState, rendered, now, steps, eventFired, rewardApplied, heap>>

\* getUpgradeCost at the current level and at the next one.
AskCost ==
    /\ last.op = "arguments"
    /\ last.level <= MaxCostLevel
    /\ last' = [last EXCEPT !.op = "cost",
                  !.result = <<getUpgradeCost(last.id, last.level),
                               getUpgradeCost(last.id, last.level + 1)>>]
    /\ UNCHANGED <<gameState, rendered, now, steps, eventFired, rewardApplied, heap>>

\* canAffordUpgrade(id) on the queried state.
AskAfford ==
    /\ last.op = "arguments"
    /\ last.level <= MaxCostLevel
    /\ gameState' = QueriedGame(last.id, last.level, last.total, last.short)
    /\ rendered' = gameState'
    /\ last' = [last EXCEPT !.op = "afford",
                  !.result = canAffordUpgrade(gameState', last.id)]
    /\ UNCHANGED <<now, steps, eventFired, rewardApplied, heap>>

CatalogNext == AskRequirement \/ AskCost \/ AskAfford

CatalogSpec == CatalogInit /\ [][CatalogNext]_vars

\* ----------------------------------------------------- the unattended grove
\* The game left to its interval timer: the player does nothing and every
\* tick's event roll comes up empty.  The grove has no fertilizer, gnomes or
\* sprinklers, so a tick has no other draw and no tree is rare.  A plant
\* costs at most costs.tree + 5 per tree on the plot, so seeds above
\* SeedCeiling buy nothing more and are not told apart; neither is the
\* clock, which only rare trees read.
SeedCeiling == 200

GroveLevels(soil, planter, shovel) ==
    [NoLevels EXCEPT !["betterSoil"] = soil, !["autoPlanter"] = planter,
                     !["autoShovel"] = shovel]

GroveGames ==
    {SavedGame(SeedCeiling, GroveLevels(soil, planter, shovel), kinds, fill, 40,
               "summer", 0) :
        soil \in {5, 7}, planter \in {0, 1, 9}, shovel \in {1, 2},
        kinds \in {<<"empty", "withered">>}, fill \in {"withered", "young"}}

\* age[i]: the growth passes tile i has been through since it became alive.
Grove(age) == [op |-> "grove", age |-> age]

GroveInit ==
    /\ gameState \in GroveGames
    /\ rendered = gameState
    /\ now = StartTime
    /\ steps = 0
    /\ eventFired = FALSE
    /\ last = Grove([i \in DOMAIN gameState.plot |-> 0])
    /\ rewardApplied = AppliedIn(gameState)
    /\ heap = Heap(INITIAL_GAME_STATE, FALSE, gameState)

\* setInterval(gameTick, TICK_MS): the timer fires; steps holds the parity
\* of the number of firings.
TimerFires == steps' = 1 - steps

\* One firing of the interval timer.
GroveTick ==
    /\ TimerFires
    /\ LET ticked == gameTick(gameState, NoTickDraw, now + TICK_MS)
           settled == [ticked EXCEPT !.seeds = Min(@, SeedCeiling),
                                     !.peakSeeds = Min(@, SeedCeiling)]
           age == [i \in DOMAIN settled.plot |->
                      IF ~Living(settled.plot[i]) THEN 0
                      ELSE IF Living(gameState.plot[i]) THEN last.age[i] + 1
                      ELSE 1]
       IN  /\ gameState' = settled
           /\ rendered' = settled
           /\ last' = Grove(age)
    /\ UNCHANGED <<now, eventFired, rewardApplied, heap>>

GroveNext == GroveTick

\* The timer is never cancelled while the page is open: it keeps firing.
GroveSpec == GroveInit /\ [][GroveNext]_vars /\ WF_steps(TimerFires)

\* ------------------------------------------------------------- properties
\* The state before the growth pass of the last tick (last.op = "tick").
PreGrowth == BeforeGrowth(last.pre, last.dr, now)

\* C1: in every reachable state resources.seeds >= 0: every debit (manual
\* plant, auto-planter plant, upgrade purchase) is taken from a state that
\* holds at least the debited amount.
C1_SeedsNonNegative == gameState.seeds >= 0

\* C2: for every tile in every reachable state isGolden and isDiamond are
\* never both true.
C2_RarityExclusive ==
    \A i \in DOMAIN gameState.plot :
        ~(gameState.plot[i].isGolden /\ gameState.plot[i].isDiamond)

\* The hummingbird festival has turned a living diamond tile golden.
C2_FestivalOnDiamond ==
    /\ last.op = "tick"
    /\ last.dr.event.id = "hummingbirdFestival"
    /\ \E i \in DOMAIN last.pre.plot :
         /\ Living(last.pre.plot[i]) /\ last.pre.plot[i].isDiamond
         /\ gameState.plot[i].isGolden

\* C3: once totalTreesPlanted has reached or passed a milestone value m
\* that defines reward entries, the reward of m has been applied exactly
\* one time (stated at the step by which the count reaches or passes m).
C3_RewardAppliedOnceReached ==
    \A m \in MILESTONE_REWARD_KEYS :
        (last.pre.totalTreesPlanted < m /\ gameState.totalTreesPlanted >= m)
            => rewardApplied[m] = 1

C5_EmptyTilesCanonical ==
    \A i \in DOMAIN gameState.plot :
        ~gameState.plot[i].hasTree
            => gameState.plot[i] = EmptyTile(gameState.plot[i].id)

\* Clear-withered has cleared a withered rare tile with a nonzero counter.
C5_RareTileCleared ==
    /\ last.op = "clearWithered"
    /\ \E i \in DOMAIN last.pre.plot :
         /\ last.pre.plot[i].isWithered
         /\ last.pre.plot[i].isGolden \/ last.pre.plot[i].isDiamond
         /\ last.pre.plot[i].seedsGenerated > 0
         /\ ~gameState.plot[i].hasTree

\* C6: across ticks, actions and purchases no tile's id changes, no tile is
\* removed or reordered, the plot length never decreases, and the length
\* changes only when the expandPlot upgrade is bought.
C6_TileIdsStable ==
    [][/\ Len(gameState'.plot) >= Len(gameState.plot)
       /\ \A i \in DOMAIN gameState.plot :
            gameState'.plot[i].id = gameState.plot[i].id
       /\ Len(gameState'.plot) # Len(gameState.plot)
            => (last'.op = "buyUpgrade" /\ last'.id = "expandPlot")]_vars

\* The expandPlot upgrade was bought on a plot that holds trees.
C6_PlotExpanded ==
    /\ last.op = "buyUpgrade"
    /\ last.id = "expandPlot"
    /\ Len(gameState.plot) > Len(last.pre.plot)
    /\ TreeIdx(last.pre.plot) # {}

\* C7: in the growth pass of a tick, a living tile whose seedsGenerated
\* reaches or exceeds treeLifespanSeeds and that has no reprieve (it is not
\* inside a rare-expiry window and its sprinkler roll did not succeed) is
\* withered at the end of that tick.
C7_WithersInSameTick ==
    last.op = "tick" =>
        LET grown == PreGrowth
            rate == getUpgradeEffect("betterSoil", grown.upgrades["betterSoil"])
        IN
        \A i \in DOMAIN grown.plot :
            LET tile == grown.plot[i] IN
            ( /\ Living(tile)
              /\ tile.seedsGenerated + (rate * generationMultiplier(tile))
                     >= grown.treeLifespanSeeds
              /\ ~InRareWindow(tile, now)
              /\ i \notin last.dr.saved )
            => gameState.plot[i].isWithered

\* A tick has taken a living tile exactly to its lifespan and withered it.
C7_TileWithered ==
    /\ last.op = "tick"
    /\ \E i \in DOMAIN PreGrowth.plot :
         /\ Living(PreGrowth.plot[i])
         /\ PreGrowth.plot[i].seedsGenerated < PreGrowth.treeLifespanSeeds
         /\ gameState.plot[i].isWithered
         /\ gameState.plot[i].seedsGenerated = gameState.treeLifespanSeeds

\* The purchase of last.id is allowed in state gs: seeds cover the cost at
\* the current level and the milestone of the next level, if any, is met.
Purchasable(gs, id) ==
    /\ gs.seeds >= getUpgradeCost(id, gs.upgrades[id])
    /\ \/ getUpgradeMilestoneRequirement(id, gs.upgrades[id] + 1) = 0
       \/ getUpgradeMilestoneRequirement(id, gs.upgrades[id] + 1) <= gs.totalTreesPlanted

\* C8: a Buy-upgrade call for a catalog id at level L changes the state if
\* and only if seeds >= cost(id, L) and the milestone requirement of level
\* L+1 is absent or met; when it succeeds seeds decrease by exactly
\* cost(id, L), that level becomes L+1, and no other level changes.
C8_BuyIffPurchasable ==
    (last.op = "buyUpgrade" /\ last.id \in UpgradeIds) =>
        LET pre == last.pre
            L == pre.upgrades[last.id]
        IN  /\ (gameState # pre) <=> Purchasable(pre, last.id)
            /\ Purchasable(pre, last.id) =>
                 /\ gameState.seeds = pre.seeds - getUpgradeCost(last.id, L)
                 /\ gameState.upgrades = [pre.upgrades EXCEPT ![last.id] = L + 1]

\* C9: when an action's precondition is unmet the state is unchanged:
\* Plant with no empty tile or with seeds below the planting cost,
\* Clear-withered with no withered tile, and Buy-upgrade with seeds below
\* cost or an unmet milestone requirement return a state equal to the
\* input state in every field.
C9_ValidationNoOps ==
    /\ ( /\ last.op = "plantTree"
         /\ EmptyIdx(last.pre.plot) = {} \/ last.pre.seeds < PlantingCostIn(last.pre) )
       => gameState = last.pre
    /\ (last.op = "clearWithered" /\ WitheredIdx(last.pre.plot) = {})
       => gameState = last.pre
    /\ ( /\ last.op = "buyUpgrade"
         /\ last.id \in UpgradeIds
         /\ ~Purchasable(last.pre, last.id) )
       => gameState = last.pre

\* C10: Buy-upgrade and canAfford called with an id that is not in the
\* catalog are silent no-ops: no error is raised, canAfford is false, and
\* the state is unchanged.
C10_UnknownIdSilentNoOp ==
    (last.op = "buyUpgrade" /\ last.id \notin UpgradeIds) =>
        /\ ~last.thrown
        /\ gameState = last.pre

\* C11: deserialize(serialize(s)) equals s structurally for every state s
\* reachable by ticks, actions and purchases, including the re-derivation
\* of peakSeeds and the key-by-key merge against the default state.
C11_RoundTrip == deserialize(serialize(gameState)) = gameState

\* A purchase has left seeds below the peak on a plot that holds a tile
\* with a deadline (written with its key) and tiles without one.
C11_SavedAfterPurchase ==
    /\ last.op = "buyUpgrade"
    /\ gameState # last.pre
    /\ gameState.peakSeeds > gameState.seeds
    /\ \E i \in DOMAIN gameState.plot :
         "rareExpiresAt" \in DOMAIN serialize(gameState).plot[i]
    /\ \E i \in DOMAIN gameState.plot :
         "rareExpiresAt" \notin DOMAIN serialize(gameState).plot[i]

UpdaterRan ==
    \/ last.op \in {"tick", "gatherSeeds", "plantTree", "clearWithered"}
    \/ last.op = "buyUpgrade" /\ gameState # last.pre

TileKind(tile) ==
    IF ~tile.hasTree THEN "Empty" ELSE IF tile.isWithered THEN "Withered" ELSE "Alive"

\* A tile stays where it is or takes one step along the cycle.
OneStep(a, b) ==
    \/ TileKind(a) = TileKind(b)
    \/ <<TileKind(a), TileKind(b)>> \in
           {<<"Empty", "Alive">>, <<"Alive", "Withered">>, <<"Withered", "Empty">>}

\* The plot before and after each phase of the last tick (event,
\* auto-planter, auto-shovel, gnome interns, growth pass).
TickPlots ==
    LET s2 == EventHandling(SeasonHandling(last.pre), last.dr.event, now)
        s3 == AutoPlanter(s2, last.dr.fert, now)
        s4 == AutoShovel(s3)
        s5 == GnomeInterns(s4, last.dr.hit, last.dr.lucky, now)
    IN  <<last.pre.plot, s2.plot, s3.plot, s4.plot, s5.plot, gameState.plot>>

\* C14 as stated: between consecutive states no tile goes from Empty to
\* Withered, from Withered to Alive or from Alive to Empty, and isWithered
\* implies hasTree in every reachable state.
C14_OneStepBetweenStates ==
    /\ \A i \in DOMAIN gameState.plot :
         gameState.plot[i].isWithered => gameState.plot[i].hasTree
    /\ \A i \in DOMAIN last.pre.plot : OneStep(last.pre.plot[i], gameState.plot[i])

\* C14, amended: every phase of a tick (event, auto-planter, auto-shovel,
\* gnome interns, growth pass) and every action moves a tile by at most one
\* step along Empty -> Alive -> Withered -> Empty, and isWithered implies
\* hasTree in every reachable state; a whole tick can take a tile two steps.
C14_OneStepPerPhase ==
    /\ \A i \in DOMAIN gameState.plot :
         gameState.plot[i].isWithered => gameState.plot[i].hasTree
    /\ last.op = "tick" =>
         LET plots == TickPlots IN
         \A k \in 1..(Len(plots) - 1) : \A i \in DOMAIN last.pre.plot :
             OneStep(plots[k][i], plots[k + 1][i])
    /\ last.op # "tick" =>
         \A i \in DOMAIN last.pre.plot : OneStep(last.pre.plot[i], gameState.plot[i])

\* A tick in which the blight withered a living tile and the auto-shovel
\* cleared that tile.
C14_BlightedAndShovelled ==
    /\ last.op = "tick"
    /\ last.dr.event.id = "wiltBlight"
    /\ \E i \in DOMAIN last.pre.plot :
         /\ TileKind(last.pre.plot[i]) = "Alive"
         /\ TileKind(TickPlots[2][i]) = "Withered"
         /\ TileKind(gameState.plot[i]) = "Empty"

\* An upgrade gated by requiresMilestone alone.
FlatGated(id) ==
    /\ UPGRADES[id].requiresMilestone # 0
    /\ ~UPGRADES[id].perLevelMilestoneProgression

\* C15: the milestone requirement of a purchase is the per-level override
\* when the catalog has one; otherwise, for a per-level progression, the
\* planting milestone at index(requiresMilestone) + targetLevel - 1, clamped
\* to the last milestone; otherwise requiresMilestone at target level 1 and
\* none from target level 2 on. A flat-gated upgrade with the seeds for it
\* is refused at level 0 exactly while totalTreesPlanted is below its
\* milestone, and is never refused for a milestone at higher levels.
C15_MilestoneRequirement ==
    LET id == last.id
        targetLevel == last.level + 1
        gate == UPGRADES[id].requiresMilestone
        count == Len(PLANTING_MILESTONES)
    IN  /\ last.op = "requirement" =>
             last.result =
               IF levelMilestones(id, targetLevel) # 0
               THEN levelMilestones(id, targetLevel)
               ELSE IF UPGRADES[id].perLevelMilestoneProgression
               THEN PLANTING_MILESTONES[
                      Min(count, IndexOf(PLANTING_MILESTONES, gate) + targetLevel - 1)]
               ELSE IF targetLevel = 1 THEN gate
               ELSE 0
        /\ (last.op = "afford" /\ FlatGated(id) /\ ~last.short) =>
             (last.result <=> ~(last.level = 0 /\ last.total < gate))

C15_ClampedToLastMilestone ==
    /\ last.op = "requirement"
    /\ last.id = "stormSatellite"
    /\ IndexOf(PLANTING_MILESTONES, UPGRADES[last.id].requiresMilestone) + last.level
         > Len(PLANTING_MILESTONES)
    /\ last.result = 10000

C17_PeakIsRunningMaximum ==
    /\ gameState.peakSeeds >= gameState.seeds
    /\ last.op # "init" =>
         /\ gameState.peakSeeds >= last.pre.peakSeeds
         /\ gameState.peakSeeds =
              IF last.op = "buyUpgrade" THEN last.pre.peakSeeds
              ELSE Max(last.pre.peakSeeds, gameState.seeds)

C17_PeakKeptAfterSpending ==
    /\ last.op = "plantTree"
    /\ gameState.seeds < last.pre.seeds
    /\ last.pre.peakSeeds > INITIAL_SEEDS
    /\ gameState.peakSeeds = last.pre.peakSeeds
    /\ gameState.peakSeeds > gameState.seeds

\* The gnome interns planted a tree in the last tick: their roll hit and
\* the plot they found had an empty tile.
GnomePlanted ==
    /\ last.op = "tick"
    /\ last.dr.hit
    /\ EmptyIdx(TickPlots[4]) # {}

\* C18: totalTreesPlanted never decreases except on a full reset, which
\* puts it back to 0; a successful manual plant and a gnome-intern plant
\* raise it by exactly 1, and nothing else changes it: not the auto-planter,
\* not an event that spawns saplings, not Gather, Clear or a purchase.
C18_TotalCountsManualAndGnomePlants ==
    /\ last.op = "reset" => gameState.totalTreesPlanted = 0
    /\ last.op \notin {"init", "reset"} =>
         gameState.totalTreesPlanted =
           last.pre.totalTreesPlanted
             + (IF (last.op = "plantTree" /\ CanPlant(last.pre)) \/ GnomePlanted
                THEN 1 ELSE 0)

C18_GnomePlantCounted ==
    /\ GnomePlanted
    /\ Cardinality(TreeIdx(TickPlots[5])) > Cardinality(TreeIdx(TickPlots[4]))
    /\ gameState.totalTreesPlanted = last.pre.totalTreesPlanted + 1

\* C19: a Plant in a state with an empty tile and seeds >= cost, where
\* cost = costs.tree + (tiles with hasTree, withered included)
\* * max(1, 5 - seedVault effect), debits exactly cost, makes the
\* lowest-index empty tile alive with seedsGenerated 0 and raises
\* totalTreesPlanted by 1; from the initial state one Plant gives seeds 30,
\* tile 0 alive and totalTreesPlanted 1.
C19_PlantDebitsCost ==
    LET pre == last.pre
        den == UPGRADES["seedVault"].effectDen
        trees == Cardinality({i \in DOMAIN pre.plot : pre.plot[i].hasTree})
        increment == Max(den, (5 * den) - getUpgradeEffect("seedVault",
                                                          pre.upgrades["seedVault"]))
        cost == pre.costsTree + ((trees * increment) \div den)
        empty == {i \in DOMAIN pre.plot : ~pre.plot[i].hasTree}
    IN  last.op = "plantTree" =>
          /\ (trees * increment) % den = 0
          /\ (empty # {} /\ pre.seeds >= cost) =>
               LET tile == CHOOSE i \in empty : \A j \in empty : i <= j IN
               /\ gameState.seeds = pre.seeds - cost
               /\ gameState.plot[tile].hasTree
               /\ ~gameState.plot[tile].isWithered
               /\ gameState.plot[tile].seedsGenerated = 0
               /\ gameState.totalTreesPlanted = pre.totalTreesPlanted + 1
          /\ pre = INITIAL_GAME_STATE =>
               /\ gameState.seeds = 30
               /\ Living(gameState.plot[1])
               /\ gameState.totalTreesPlanted = 1

C19_PlantedBesideWitheredTree ==
    /\ last.op = "plantTree"
    /\ WitheredIdx(last.pre.plot) # {}
    /\ gameState.totalTreesPlanted = last.pre.totalTreesPlanted + 1
    /\ gameState.seeds
         = last.pre.seeds - (last.pre.costsTree
                              + (Cardinality(TreeIdx(last.pre.plot)) * BASE_PLANTING_INCREMENT))
    /\ gameState.seeds < last.pre.seeds - last.pre.costsTree

\* C20: a Gather whose confetti roll fails adds exactly
\* effect(gloves) + effect(sunCore) + gatherBonus to the seeds and changes
\* nothing else except peakSeeds; with gloves and sunCore at level 0 and
\* gatherBonus 0 it adds exactly 1.
C20_GatherAddsExactGain ==
    LET pre == last.pre
        gain == getUpgradeEffect("gloves", pre.upgrades["gloves"])
                + getUpgradeEffect("sunCore", pre.upgrades["sunCore"])
                + pre.gatherBonus
    IN  (last.op = "gatherSeeds" /\ ~last.roll) =>
          /\ gameState = [pre EXCEPT !.seeds = @ + gain,
                                     !.peakSeeds = gameState.peakSeeds]
          /\ (pre.upgrades["gloves"] = 0 /\ pre.upgrades["sunCore"] = 0
              /\ pre.gatherBonus = 0) => gameState.seeds = pre.seeds + 1

C20_GatheredWithMilestoneBonus ==
    /\ last.op = "gatherSeeds"
    /\ ~last.roll
    /\ last.pre.gatherBonus > 0
    /\ last.pre.upgrades["gloves"] > 0
    /\ gameState.seeds = last.pre.seeds + 4

\* C21: a Clear on a state with a withered tile credits seeds only when the
\* shovel level is at least 1; the credit is shovel effect + composter
\* effect, times 10 if the cleared tile was diamond and times 5 if it was
\* golden, by the tile's flags before the clear; at shovel level 0 the
\* seeds are unchanged.
C21_ClearCreditsCompost ==
    LET pre == last.pre
        withered == {i \in DOMAIN pre.plot : pre.plot[i].isWithered}
    IN  (last.op = "clearWithered" /\ withered # {}) =>
          LET tile == pre.plot[CHOOSE i \in withered : \A j \in withered : i <= j]
              plain == getUpgradeEffect("shovel", pre.upgrades["shovel"])
                       + getUpgradeEffect("composter", pre.upgrades["composter"])
              credit == IF tile.isDiamond THEN plain * 10
                        ELSE IF tile.isGolden THEN plain * 5
                        ELSE plain
          IN  gameState.seeds =
                IF pre.upgrades["shovel"] >= 1 THEN pre.seeds + credit ELSE pre.seeds

C21_DiamondCompostCredited ==
    /\ last.op = "clearWithered"
    /\ last.pre.upgrades["shovel"] >= 1
    /\ \E i \in WitheredIdx(last.pre.plot) :
         /\ last.pre.plot[i].isDiamond
         /\ ~gameState.plot[i].hasTree
         /\ ~gameState.plot[i].isDiamond
    /\ gameState.seeds = last.pre.seeds + 150

\* C22: buying expandPlot on a plot of n tiles yields n + 2 tiles, the two
\* new ones with ids n and n + 1 in the canonical empty shape and the first
\* n unchanged; so in every reachable state the tile at index i has id i
\* and the plot has 16 + 2 * (expandPlot level) tiles.
C22_PlotGrowsByTwo ==
    /\ \A i \in DOMAIN gameState.plot : gameState.plot[i].id = i - 1
    /\ Len(gameState.plot) = 16 + (2 * gameState.upgrades["expandPlot"])
    /\ ( /\ last.op = "buyUpgrade"
         /\ last.id = "expandPlot"
         /\ gameState.upgrades["expandPlot"] # last.pre.upgrades["expandPlot"] ) =>
           LET n == Len(last.pre.plot) IN
           /\ Len(gameState.plot) = n + 2
           /\ SubSeq(gameState.plot, 1, n) = last.pre.plot
           /\ \A k \in {n, n + 1} :
                gameState.plot[k + 1] =
                  [id |-> k, hasTree |-> FALSE, isWithered |-> FALSE,
                   seedsGenerated |-> 0, isGolden |-> FALSE, isDiamond |-> FALSE,
                   rareExpiresAt |-> Undefined]

C22_ExpandedFromSixteen ==
    /\ last.op = "buyUpgrade"
    /\ last.id = "expandPlot"
    /\ Len(last.pre.plot) = 16
    /\ Len(gameState.plot) = 18
    /\ gameState.plot[17].id = 16
    /\ gameState.plot[18].id = 17
    /\ ~gameState.plot[17].hasTree
    /\ ~gameState.plot[18].hasTree

\* C23: in every reachable state treeLifespanSeeds is 60 plus the effects
\* of cleanseSoil and greenhouse at their current levels; a purchase of
\* either recomputes it from the levels after the purchase, and no other
\* operation changes it.
C23_LifespanFollowsLevels ==
    /\ gameState.treeLifespanSeeds =
         60 + getUpgradeEffect("cleanseSoil", gameState.upgrades["cleanseSoil"])
            + getUpgradeEffect("greenhouse", gameState.upgrades["greenhouse"])
    /\ ( /\ last.op # "init"
         /\ ~(last.op = "buyUpgrade" /\ last.id \in {"cleanseSoil", "greenhouse"}) ) =>
           gameState.treeLifespanSeeds = last.pre.treeLifespanSeeds

C23_LifespanRaisedAgain ==
    /\ last.op = "buyUpgrade"
    /\ last.id = "cleanseSoil"
    /\ last.pre.upgrades["cleanseSoil"] >= 1
    /\ gameState.upgrades["cleanseSoil"] = last.pre.upgrades["cleanseSoil"] + 1
    /\ gameState.treeLifespanSeeds = last.pre.treeLifespanSeeds + 15

\* C24: a tick runs season decay, event roll, auto-planter, auto-shovel,
\* gnome interns, per-tile growth, seed gain and notification pass in this
\* order: a tile planted in the tick by an event, the auto-planter or the
\* gnomes has grown by the end of the tick, a tile that lived when the
\* growth pass began still holds its tree at the end of the tick (the
\* auto-shovel does not clear what this tick withered), and the
\* notification pass has seen the seeds after the tick's gain.
C24_PhasesInOrder ==
    last.op = "tick" =>
      LET plots == TickPlots
          rate == getUpgradeEffect("betterSoil", gameState.upgrades["betterSoil"])
      IN  /\ \A i \in DOMAIN last.pre.plot : \A k \in {1, 2, 4} :
                (TileKind(plots[k][i]) = "Empty" /\ TileKind(plots[k + 1][i]) = "Alive")
                => /\ gameState.plot[i].hasTree
                   /\ gameState.plot[i].seedsGenerated
                        = rate * generationMultiplier(plots[k + 1][i])
          /\ \A i \in DOMAIN last.pre.plot :
                TileKind(plots[5][i]) = "Alive" => gameState.plot[i].hasTree
          /\ \A u \in UpgradeIds :
                ( /\ gameState.seeds >= getUpgradeCost(u, gameState.upgrades[u])
                  /\ ~(NotifyLevelCap(u) /\ gameState.upgrades[u] >= 9) )
                => <<u, gameState.upgrades[u]>> \in gameState.notifiedAvailable

\* A tick whose event planted a sapling: the sapling grew in that tick and
\* its yield took the seeds to a cost that the notification pass reported.
C24_SaplingGrewAndGainNotified ==
    /\ last.op = "tick"
    /\ last.dr.event.id = "diamondSapling"
    /\ \E i \in DOMAIN last.pre.plot :
         /\ ~last.pre.plot[i].hasTree
         /\ Living(gameState.plot[i])
         /\ gameState.plot[i].seedsGenerated > 0
    /\ \E u \in UpgradeIds :
         /\ <<u, gameState.upgrades[u]>> \in gameState.notifiedAvailable
         /\ <<u, gameState.upgrades[u]>> \notin last.pre.notifiedAvailable
         /\ PreGrowth.seeds < getUpgradeCost(u, gameState.upgrades[u])

\* seedsGained += seedsThisTick, over a sequence of per-tile amounts.
RECURSIVE SumOf(_)
SumOf(amounts) ==
    IF amounts = <<>> THEN 0 ELSE Head(amounts) + SumOf(Tail(amounts))

\* C25: in a tick every living tile that is not rare-expired adds
\* soilRate * m to its own seedsGenerated (m = 1 normal, 2 golden,
\* 5 diamond, whatever the season; a tile reprieved at its lifespan is then
\* set back to half the lifespan), and the seeds grow by the sum of these
\* amounts times the multiplier of the season in force after the tick's
\* season decay and event; a lone tile at 59 with lifespan 60, soil rate 1,
\* summer and no sprinklers ends the tick at 60, withered, with seeds + 2.
C25_GrowthAndSeasonGain ==
    last.op = "tick" =>
      LET grown == PreGrowth
          rate == getUpgradeEffect("betterSoil", grown.upgrades["betterSoil"])
          expired(tile) == /\ tile.isGolden \/ tile.isDiamond
                           /\ tile.rareExpiresAt # Undefined
                           /\ now >= tile.rareExpiresAt
          amount(tile) == IF tile.hasTree /\ ~tile.isWithered /\ ~expired(tile)
                          THEN rate * (IF tile.isDiamond THEN 5
                                       ELSE IF tile.isGolden THEN 2 ELSE 1)
                          ELSE 0
          amounts == [i \in DOMAIN grown.plot |-> amount(grown.plot[i])]
          season == CASE grown.currentSeason = "spring" -> 5
                      [] grown.currentSeason = "summer" -> 2
                      [] grown.currentSeason = "autumn" -> 3
                      [] grown.currentSeason = "winter" -> 1
          living == {i \in DOMAIN grown.plot : amounts[i] > 0}
      IN  /\ gameState.seeds = grown.seeds + (SumOf(amounts) * season)
          /\ \A i \in living :
               gameState.plot[i].seedsGenerated =
                 IF grown.plot[i].seedsGenerated + amounts[i] >= grown.treeLifespanSeeds
                    /\ ~gameState.plot[i].isWithered
                 THEN grown.treeLifespanSeeds \div 2
                 ELSE grown.plot[i].seedsGenerated + amounts[i]
          /\ \A i \in living :
               ( /\ living = {i}
                 /\ grown.plot[i].seedsGenerated = 59
                 /\ grown.treeLifespanSeeds = 60
                 /\ rate = 1
                 /\ amounts[i] = 1
                 /\ grown.currentSeason = "summer"
                 /\ grown.upgrades["sprinklers"] = 0 )
               => /\ gameState.plot[i].seedsGenerated = 60
                  /\ gameState.plot[i].isWithered
                  /\ gameState.seeds = grown.seeds + 2

\* A season-change event fired in a tick and the living tiles' yield was
\* paid at the new season's multiplier.
C25_GainAtNewSeason ==
    /\ last.op = "tick"
    /\ last.dr.event.id \in DOMAIN SeasonOfEvent
    /\ PreGrowth.currentSeason = "spring"
    /\ last.pre.currentSeason # "spring"
    /\ LivingIdx(PreGrowth.plot) # {}
    /\ gameState.seeds >= PreGrowth.seeds + (5 * Cardinality(LivingIdx(PreGrowth.plot)))
    /\ \E i \in LivingIdx(PreGrowth.plot) :
         gameState.plot[i].seedsGenerated = PreGrowth.plot[i].seedsGenerated + 1

\* C26: under every interleaving of tick, action and purchase callbacks a
\* purchase checks and commits against the same state: it never commits to
\* a state that holds fewer seeds than the cost at that state's level or
\* whose milestone is unmet, and what it debits is the cost at the level it
\* raises.
C26_PurchaseCommitsToCheckedState ==
    ( /\ last.op = "buyUpgrade"
      /\ last.id \in UpgradeIds
      /\ gameState # last.pre ) =>
        LET pre == last.pre
            cost == getUpgradeCost(last.id, pre.upgrades[last.id])
            requiredMilestone ==
                getUpgradeMilestoneRequirement(last.id, pre.upgrades[last.id] + 1)
        IN  /\ pre.seeds >= cost
            /\ requiredMilestone # 0 => pre.totalTreesPlanted >= requiredMilestone
            /\ gameState.seeds = pre.seeds - cost
            /\ gameState.upgrades[last.id] = pre.upgrades[last.id] + 1

\* C27 as stated: after any tick that ends with seasonDuration = 0 and in
\* which no season-change event fired, currentSeason is summer.
C27_SummerWhenDurationEndsAtZero ==
    ( /\ last.op = "tick"
      /\ gameState.seasonDuration = 0
      /\ last.dr.event.id \notin DOMAIN SeasonOfEvent )
    => gameState.currentSeason = "summer"

\* C27, amended: the season reverts to summer in the tick after its
\* duration reached zero: after any tick that begins with
\* seasonDuration = 0 and in which no season-change event fired,
\* currentSeason is summer; a tick that begins with seasonDuration > 0 and
\* has no season-change event lowers the duration by one and keeps the
\* season, also when the duration thereby reaches zero.
C27_SummerAfterTickFromZero ==
    (last.op = "tick" /\ last.dr.event.id \notin DOMAIN SeasonOfEvent) =>
        IF last.pre.seasonDuration = 0
        THEN /\ gameState.currentSeason = "summer"
             /\ gameState.seasonDuration = 0
        ELSE /\ gameState.currentSeason = last.pre.currentSeason
             /\ gameState.seasonDuration = last.pre.seasonDuration - 1

\* A tick found winter with its duration at zero and reverted it.
C27_WinterReverted ==
    /\ last.op = "tick"
    /\ last.dr.event.id \notin DOMAIN SeasonOfEvent
    /\ last.pre.currentSeason = "winter"
    /\ last.pre.seasonDuration = 0
    /\ gameState.currentSeason = "summer"

\* C28: the event phase of a tick changes currentSeason to a season S only
\* when, after that tick's season decay, currentSeason differs from S and
\* seasonDuration is 0; the event then sets seasonDuration to 300 plus the
\* weather-station effect; while seasonDuration is above 0 after the decay
\* no season-change event fires.
C28_SeasonChangeOnlyAtZero ==
    last.op = "tick" =>
      LET pre == last.pre
          decayedDuration == IF pre.seasonDuration > 0 THEN pre.seasonDuration - 1 ELSE 0
          decayedSeason == IF pre.seasonDuration > 0 THEN pre.currentSeason ELSE "summer"
          station == pre.upgrades["weatherStation"]
          fired == last.dr.event.id
      IN  /\ fired \in DOMAIN SeasonOfEvent =>
               /\ decayedSeason # SeasonOfEvent[fired]
               /\ decayedDuration = 0
               /\ gameState.currentSeason = SeasonOfEvent[fired]
               /\ gameState.seasonDuration = 300 + (30 * station)
          /\ fired \notin DOMAIN SeasonOfEvent =>
               /\ gameState.currentSeason = decayedSeason
               /\ gameState.seasonDuration = decayedDuration
          /\ decayedDuration > 0 => fired \notin DOMAIN SeasonOfEvent

\* A season-change event fired in the tick that took the duration to zero,
\* with a weather station owned.
C28_SeasonChangedWithStation ==
    /\ last.op = "tick"
    /\ last.dr.event.id \in DOMAIN SeasonOfEvent
    /\ last.pre.upgrades["weatherStation"] >= 1
    /\ gameState.currentSeason = SeasonOfEvent[last.dr.event.id]
    /\ gameState.currentSeason # "summer"
    /\ gameState.seasonDuration = 330

\* C29: a tick applies at most one event, and only an event that has no
\* canTrigger or whose canTrigger holds on the state as it is after that
\* tick's season decay; the state after the event phase is that of the one
\* selected event, or the decayed state when none was selected.
C29_OneEligibleEventPerTick ==
    last.op = "tick" =>
      LET pre == last.pre
          fired == last.dr.event.id
          decayedDuration == IF pre.seasonDuration > 0 THEN pre.seasonDuration - 1 ELSE 0
          decayedSeason == IF pre.seasonDuration > 0 THEN pre.currentSeason ELSE "summer"
          living == {i \in DOMAIN pre.plot : pre.plot[i].hasTree /\ ~pre.plot[i].isWithered}
          empty == {i \in DOMAIN pre.plot : ~pre.plot[i].hasTree}
          harvest == IF fired = "bountifulHarvest" THEN 10 + (5 * Cardinality(living)) ELSE 0
          bundle == IF fired = "wanderingMerchant"
                    THEN 150 + ((pre.totalTreesPlanted * 3) \div 2) ELSE 0
          afterEvent == EventHandling(SeasonHandling(pre), last.dr.event, now)
      IN  /\ fired \in EventIds \cup {"none"}
          /\ fired \in {"bountifulHarvest", "gentleRain", "hummingbirdFestival",
                        "wiltBlight"} => living # {}
          /\ fired \in {"diamondSapling", "goldenSapling"} => (empty \cup living) # {}
          /\ fired \in DOMAIN SeasonOfEvent =>
               (decayedSeason # SeasonOfEvent[fired] /\ decayedDuration <= 0)
          /\ afterEvent.seeds = pre.seeds + harvest + bundle
          /\ afterEvent.costsTree =
               IF fired = "wanderingMerchant" THEN Max(5, pre.costsTree - 1)
               ELSE pre.costsTree
          /\ fired \notin {"diamondSapling", "goldenSapling", "gentleRain",
                           "hummingbirdFestival", "wiltBlight"} =>
               afterEvent.plot = pre.plot

\* The wandering merchant, which has no canTrigger, came by a plot with no
\* living tree.
C29_MerchantAtBarePlot ==
    /\ last.op = "tick"
    /\ last.dr.event.id = "wanderingMerchant"
    /\ LivingIdx(last.pre.plot) = {}
    /\ gameState.costsTree = last.pre.costsTree - 1
    /\ gameState.seeds >= last.pre.seeds + 150

\* C30: the golden-sapling event is eligible only when the plot has an
\* empty tile or a living tile that is not diamond, and whenever it fires
\* exactly one tile becomes golden and alive with a fresh 30 s expiry: the
\* lowest-index empty tile if there is one, otherwise the lowest-index
\* living tile that is not diamond; the diamond-sapling event does the same
\* with any living tile and a 60 s expiry.
C30_SaplingTakesOneTile ==
    (last.op = "tick" /\ last.dr.event.id \in {"goldenSapling", "diamondSapling"}) =>
      LET golden == last.dr.event.id = "goldenSapling"
          before == last.pre.plot
          after == TickPlots[2]
          empty == {i \in DOMAIN before : ~before[i].hasTree}
          living == {i \in DOMAIN before :
                        /\ before[i].hasTree
                        /\ ~before[i].isWithered
                        /\ golden => ~before[i].isDiamond}
          candidates == IF empty # {} THEN empty ELSE living
      IN  /\ candidates # {}
          /\ LET target == CHOOSE i \in candidates : \A j \in candidates : i <= j IN
             /\ after[target].hasTree
             /\ ~after[target].isWithered
             /\ after[target].isGolden = golden
             /\ after[target].isDiamond = ~golden
             /\ after[target].rareExpiresAt = now + (IF golden THEN 30000 ELSE 60000)
             /\ \A i \in DOMAIN before : i # target => after[i] = before[i]

\* C31: costs.tree never increases and stays within 5..10: only the
\* wandering-merchant event changes it, lowering it by 1 and never below 5,
\* while adding 150 + floor(1.5 * totalTreesPlanted) seeds.
C31_TreeCostOnlyFalls ==
    /\ gameState.costsTree \in 5..10
    /\ last.op # "init" =>
         LET pre == last.pre
             merchant == last.op = "tick" /\ last.dr.event.id = "wanderingMerchant"
             afterEvent == EventHandling(SeasonHandling(pre), last.dr.event, now)
         IN  /\ gameState.costsTree <= pre.costsTree
             /\ gameState.costsTree # pre.costsTree => merchant
             /\ merchant =>
                  /\ gameState.costsTree =
                       IF pre.costsTree > 5 THEN pre.costsTree - 1 ELSE 5
                  /\ afterEvent.seeds
                       = pre.seeds + 150 + ((3 * pre.totalTreesPlanted) \div 2)

\* The merchant came by when the tree cost was already at its floor.
C31_MerchantAtFloor ==
    /\ last.op = "tick"
    /\ last.dr.event.id = "wanderingMerchant"
    /\ last.pre.costsTree = 5
    /\ gameState.costsTree = 5
    /\ gameState.seeds >= last.pre.seeds + 180

\* C32: with the auto-planter owned, a tick that finds no empty tile at the
\* auto-planter phase sets the cooldown to the upgrade's current interval
\* without counting down; with an empty tile the cooldown is decremented by 1
\* and, on reaching 0, reset to the interval whether or not a tree was
\* planted; a tree is planted only if the seeds cover the cost a manual
\* Plant would charge in that state.
C32_AutoPlanterCooldown ==
    (last.op = "tick" /\ last.pre.upgrades["autoPlanter"] > 0) =>
        LET plots == TickPlots
            atPhase == EventHandling(SeasonHandling(last.pre), last.dr.event, now)
            interval == getUpgradeEffect("autoPlanter", last.pre.upgrades["autoPlanter"])
            expired == atPhase.autoPlanterCooldown - 1 <= 0
            planted == plots[3] # plots[2]
        IN  /\ EmptyIdx(atPhase.plot) = {} =>
                 /\ gameState.autoPlanterCooldown = interval
                 /\ ~planted
            /\ EmptyIdx(atPhase.plot) # {} =>
                 /\ gameState.autoPlanterCooldown =
                      IF expired THEN interval ELSE atPhase.autoPlanterCooldown - 1
                 /\ planted <=> (expired /\ CanPlant(atPhase))
                 /\ planted => Living(plots[3][FirstIn(EmptyIdx(atPhase.plot))])

\* The cooldown expired over an empty tile that the seeds could not pay for.
C32_ResetWithoutPlanting ==
    /\ last.op = "tick"
    /\ last.pre.upgrades["autoPlanter"] > 0
    /\ EmptyIdx(last.pre.plot) # {}
    /\ last.pre.autoPlanterCooldown = 1
    /\ last.dr.event.id = "none"
    /\ last.pre.seeds < PlantingCostIn(last.pre)
    /\ gameState.autoPlanterCooldown
         = getUpgradeEffect("autoPlanter", last.pre.upgrades["autoPlanter"])
    /\ Cardinality(TreeIdx(gameState.plot)) = Cardinality(TreeIdx(last.pre.plot))

\* C33: an auto-shovel clear equals a manual clear-withered on the same
\* state: the same lowest-index withered tile, the same resulting tile and
\* the same seeds credited, for every combination of shovel and composter
\* levels and tile rarity.
C33_AutoClearEqualsManualClear ==
    (last.op = "tick" /\ last.pre.upgrades["autoShovel"] > 0) =>
        LET atPhase == AutoPlanter(EventHandling(SeasonHandling(last.pre),
                                                 last.dr.event, now),
                                   last.dr.fert, now)
            shovelled == AutoShovel(atPhase)
            manual == clearWithered(atPhase)
        IN  shovelled.plot # atPhase.plot =>
                /\ shovelled.plot = manual.plot
                /\ shovelled.seeds = manual.seeds

\* C34: a living rare tile whose deadline lies in the future is never
\* withered by the growth pass: when its seedsGenerated reaches the lifespan
\* the counter is set to floor(lifespan / 2) and the tile stays alive and
\* rare, whatever the sprinkler roll.
C34_RareReprieve ==
    last.op = "tick" =>
        LET grown == PreGrowth
            soilRate == getUpgradeEffect("betterSoil", grown.upgrades["betterSoil"])
        IN  \A i \in DOMAIN grown.plot :
                LET tile == grown.plot[i]
                    after == gameState.plot[i]
                    counted == tile.seedsGenerated
                                 + (soilRate * (IF tile.isDiamond THEN 5 ELSE 2))
                IN  (/\ tile.hasTree /\ ~tile.isWithered
                     /\ (tile.isGolden \/ tile.isDiamond)
                     /\ tile.rareExpiresAt # Undefined
                     /\ now < tile.rareExpiresAt) =>
                        /\ after.hasTree /\ ~after.isWithered
                        /\ after.isGolden = tile.isGolden
                        /\ after.isDiamond = tile.isDiamond
                        /\ after.rareExpiresAt = tile.rareExpiresAt
                        /\ after.seedsGenerated =
                             IF counted >= grown.treeLifespanSeeds
                             THEN grown.treeLifespanSeeds \div 2
                             ELSE counted

\* A golden tree in its window reached the lifespan in a tick whose
\* sprinkler rolls all failed, and it was set back to half the lifespan.
C34_GoldenSetBackUnsaved ==
    /\ last.op = "tick"
    /\ last.dr.saved = {}
    /\ \E i \in DOMAIN last.pre.plot :
          /\ Living(last.pre.plot[i]) /\ last.pre.plot[i].isGolden
          /\ last.pre.plot[i].rareExpiresAt # Undefined
          /\ now < last.pre.plot[i].rareExpiresAt
          /\ last.pre.plot[i].seedsGenerated + 2 >= last.pre.treeLifespanSeeds
          /\ Living(gameState.plot[i]) /\ gameState.plot[i].isGolden
          /\ gameState.plot[i].seedsGenerated = last.pre.treeLifespanSeeds \div 2

\* C35: a living rare tile whose deadline is at or before the tick's clock
\* is withered in that tick and its rareExpiresAt cleared; it adds nothing
\* to the seed gain nor to its own seedsGenerated. So after a tick no living
\* rare tile is left with a deadline at or before that tick's clock.
C35_ExpiredRareWithers ==
    last.op = "tick" =>
        LET grown == PreGrowth
            rate == getUpgradeEffect("betterSoil", grown.upgrades["betterSoil"])
            due == {i \in DOMAIN grown.plot :
                       /\ grown.plot[i].hasTree /\ ~grown.plot[i].isWithered
                       /\ grown.plot[i].isGolden \/ grown.plot[i].isDiamond
                       /\ grown.plot[i].rareExpiresAt # Undefined
                       /\ grown.plot[i].rareExpiresAt <= now}
            others == {i \in DOMAIN grown.plot :
                          /\ grown.plot[i].hasTree /\ ~grown.plot[i].isWithered
                          /\ i \notin due}
            amounts == [i \in DOMAIN grown.plot |->
                          IF i \in others
                          THEN rate * (IF grown.plot[i].isDiamond THEN 5
                                       ELSE IF grown.plot[i].isGolden THEN 2 ELSE 1)
                          ELSE 0]
        IN  /\ \A i \in due :
                 /\ gameState.plot[i].hasTree /\ gameState.plot[i].isWithered
                 /\ gameState.plot[i].rareExpiresAt = Undefined
                 /\ gameState.plot[i].seedsGenerated = grown.plot[i].seedsGenerated
            /\ gameState.seeds
                 = grown.seeds + (SumOf(amounts) * SEASON_MULTIPLIERS[grown.currentSeason])
            /\ \A i \in DOMAIN gameState.plot :
                 (/\ gameState.plot[i].hasTree /\ ~gameState.plot[i].isWithered
                  /\ gameState.plot[i].isGolden \/ gameState.plot[i].isDiamond) =>
                     /\ gameState.plot[i].rareExpiresAt # Undefined
                     /\ gameState.plot[i].rareExpiresAt > now

\* A rare tree withered in the tick whose clock stood exactly at its deadline.
C35_WitheredAtDeadline ==
    /\ last.op = "tick"
    /\ \E i \in DOMAIN last.pre.plot :
          /\ Living(last.pre.plot[i])
          /\ last.pre.plot[i].isGolden \/ last.pre.plot[i].isDiamond
          /\ last.pre.plot[i].rareExpiresAt = now
          /\ gameState.plot[i].isWithered
          /\ gameState.plot[i].rareExpiresAt = Undefined
          /\ gameState.plot[i].seedsGenerated = last.pre.plot[i].seedsGenerated

\* C36: each keyed log message is emitted at most once: its flag in
\* loggedMilestones (planted<m>, firstWither) or notifiedAvailable
\* (<id>_<level>) is set in the step that emits the message, the message is
\* emitted only while the flag is unset, and no step other than a full
\* reset clears a flag.
C36_KeyedLogsOnce ==
    last.op \notin {"init", "reset"} =>
        LET pre == last.pre
            grown == PreGrowth
            milestoneLogs ==
                CASE last.op = "tick" -> FirstWitherLog(grown, last.dr.saved, now)
                  [] last.op = "plantTree" -> PlantMilestoneLog(pre)
                  [] OTHER -> {}
            availabilityLogs ==
                IF last.op = "tick"
                THEN NewlyAvailable(GrowthPass(grown, last.dr.saved, now))
                ELSE {}
        IN  /\ pre.loggedMilestones \subseteq gameState.loggedMilestones
            /\ pre.notifiedAvailable \subseteq gameState.notifiedAvailable
            /\ milestoneLogs \cap pre.loggedMilestones = {}
            /\ availabilityLogs \cap pre.notifiedAvailable = {}
            /\ gameState.loggedMilestones = pre.loggedMilestones \cup milestoneLogs
            /\ gameState.notifiedAvailable = pre.notifiedAvailable \cup availabilityLogs

\* A tick announced one upgrade level and stayed silent about another that
\* was affordable again but already announced.
C36_AnnouncedOnceNotTwice ==
    /\ last.op = "tick"
    /\ gameState.notifiedAvailable # last.pre.notifiedAvailable
    /\ \E key \in last.pre.notifiedAvailable :
          /\ gameState.upgrades[key[1]] = key[2]
          /\ gameState.seeds >= getUpgradeCost(key[1], key[2])

\* C37: the notification pass emits an availability log and sets
\* notifiedAvailable[<id>_<level>] only if the player can afford the next
\* level at the end of the tick in the sense of canAffordUpgrade: the seeds
\* cover the cost and the milestone requirement of level + 1 is met.
C37_NotifiedOnlyIfAffordable ==
    last.op = "tick" =>
        \A key \in gameState.notifiedAvailable \ last.pre.notifiedAvailable :
            /\ gameState.upgrades[key[1]] = key[2]
            /\ canAffordUpgrade(gameState, key[1])

\* C38: after every tick, action and purchase every living tile has
\* 0 <= seedsGenerated < treeLifespanSeeds.
C38_LivingBelowLifespan ==
    \A i \in DOMAIN gameState.plot :
        (gameState.plot[i].hasTree /\ ~gameState.plot[i].isWithered) =>
            /\ 0 <= gameState.plot[i].seedsGenerated
            /\ gameState.plot[i].seedsGenerated < gameState.treeLifespanSeeds

\* One tick of gentle rain in which a young tree was cooled to the floor and
\* an old one, set back by the rain, grew on below the lifespan.
C38_RainedOnYoungAndOld ==
    /\ last.op = "tick"
    /\ last.dr.event.id = "gentleRain"
    /\ \E i, j \in DOMAIN last.pre.plot :
          /\ Living(last.pre.plot[i]) /\ last.pre.plot[i].seedsGenerated < 15
          /\ Living(gameState.plot[i])
          /\ gameState.plot[i].seedsGenerated
               = getUpgradeEffect("betterSoil", gameState.upgrades["betterSoil"])
          /\ Living(last.pre.plot[j])
          /\ last.pre.plot[j].seedsGenerated = last.pre.treeLifespanSeeds - 1
          /\ Living(gameState.plot[j])

C40_WitheredEventuallyCleared ==
    \A i \in 1..INITIAL_PLOT_SIZE :
        (gameState.plot[i].isWithered) ~> (~gameState.plot[i].hasTree)

====
